---- MODULE Spec2Model ----
(***************************************************************************)
(* Registration and sign-in flows of the DawgStream REST API               *)
(* (src/src/routes/auth/register.ts, src/src/routes/closed/index.ts) over  *)
(* the Account / Account_Credential tables, and the book handlers of       *)
(* src/src/routes/open/library.ts over the Books table.                    *)
(*                                                                         *)
(* A request is a chain of Express handlers.  The synchronous part of a    *)
(* chain runs to completion on Node's single thread; a pool.query call is  *)
(* the only suspension point.  One action is one handler; a handler that   *)
(* consumes the result of a statement is one action together with the      *)
(* execution of that statement, because the continuation only touches the  *)
(* fields of its own request and its own response.                         *)
(***************************************************************************)
EXTENDS Integers, Sequences, FiniteSets, TLC

VARIABLES
    Account,             \* table Account: set of rows (account_id is unique)
    Account_Credential,  \* table Account_Credential: rows in insertion order
    Books,               \* table Books: set of rows
    account_id_seq,      \* the next system-generated account_id
    req,                 \* per connection: the request being served and its response
    registered           \* history: registrations that were answered 201

vars == <<Account, Account_Credential, Books, account_id_seq, req, registered>>

(***************************************************************************)
(* Bounds of the model.                                                    *)
(***************************************************************************)
MaxRoleLen == 3
MaxFill == 6
SuffixLen == 3
NumSlots == 2
MaxAccounts == 2

Slots == 1..NumSlots

(***************************************************************************)
(* JavaScript values.  A string is a sequence of one-character strings.    *)
(***************************************************************************)
Undefined == [t |-> "undefined"]
Null == [t |-> "null"]
Str(s) == [t |-> "string", v |-> s]
Num(n) == [t |-> "number", v |-> n]

IsString(x) == x.t = "string"

Upper == {"A","B","C","D","E","F","G","H","I","J","K","L","M",
          "N","O","P","Q","R","S","T","U","V","W","X","Y","Z"}
Lower == {"a","b","c","d","e","f","g","h","i","j","k","l","m",
          "n","o","p","q","r","s","t","u","v","w","x","y","z"}
Digit == {"0","1","2","3","4","5","6","7","8","9"}
Whitespace == {" "}

DigitVal(c) ==
    CASE c = "0" -> 0 [] c = "1" -> 1 [] c = "2" -> 2 [] c = "3" -> 3
      [] c = "4" -> 4 [] c = "5" -> 5 [] c = "6" -> 6 [] c = "7" -> 7
      [] c = "8" -> 8 [] c = "9" -> 9

\* JavaScript truthiness of a value (used by `!request.body.phone` and `a || b`).
Truthy(x) ==
    CASE x.t = "undefined" -> FALSE
      [] x.t = "null" -> FALSE
      [] x.t = "string" -> Len(x.v) > 0
      [] x.t = "number" -> x.v # 0

(***************************************************************************)
(* core/utilities: validationFunctions and credentialingFunctions.         *)
(***************************************************************************)
isStringProvided(x) == IsString(x) /\ Len(x.v) > 0

\* the characters of s after an optional leading sign
Unsigned(s) == IF Len(s) > 0 /\ s[1] \in {"+", "-"} THEN Tail(s) ELSE s

\* Number(s) is not NaN, for s over digits, sign and decimal point
IsNumericString(s) ==
    LET u == Unsigned(s) IN
        /\ Len(u) > 0
        /\ \A i \in 1..Len(u) : u[i] \in Digit \cup {"."}
        /\ Cardinality({i \in 1..Len(u) : u[i] = "."}) <= 1
        /\ \E i \in 1..Len(u) : u[i] \in Digit

isNumberProvided(x) ==
    CASE x.t = "string" -> Len(x.v) > 0 /\ IsNumericString(x.v)
      [] x.t = "number" -> TRUE
      [] OTHER -> FALSE

\* length of the leading run of digits of u
RECURSIVE DigitPrefixLen(_)
DigitPrefixLen(u) ==
    IF Len(u) > 0 /\ u[1] \in Digit THEN 1 + DigitPrefixLen(Tail(u)) ELSE 0

RECURSIVE DigitsValue(_, _)
DigitsValue(u, n) ==
    IF n = 0 THEN 0 ELSE 10 * DigitsValue(u, n - 1) + DigitVal(u[n])

\* parseInt(s) is NaN exactly when s has no digit after the optional sign
ParseIntIsNaN(s) == DigitPrefixLen(Unsigned(s)) = 0

\* parseInt(s): the optional sign and the leading digits, the rest is ignored
parseInt(s) ==
    LET u == Unsigned(s)
        m == DigitsValue(u, DigitPrefixLen(u))
    IN  IF Len(s) > 0 /\ s[1] = "-" THEN 0 - m ELSE m

\* a deterministic, collision-free digest of (password, salt)
generateHash(password, salt) == [pw |-> password, salt |-> salt]

\* the values generateSalt(32) can return
Salts == {"salt1", "salt2"}

\* jwt.sign(payload, key.secret, {expiresIn: '14 days'})
JwtSign(payload) == [payload |-> payload, expiresIn |-> "14 days"]

(***************************************************************************)
(* register.ts: the predicates of the registration chain.                  *)
(***************************************************************************)
isValidPasswordLongerThan8(password) ==
    /\ isStringProvided(password)
    /\ Len(password.v) > 8
    /\ \E i \in 1..Len(password.v) : password.v[i] \in Upper
    /\ \E i \in 1..Len(password.v) : password.v[i] \in Lower
    /\ \E i \in 1..Len(password.v) : password.v[i] \in Digit

isValidPassword(password) ==
    /\ isStringProvided(password)
    /\ Len(password.v) >= 8
    /\ \E i \in 1..Len(password.v) : password.v[i] \in Upper
    /\ \E i \in 1..Len(password.v) : password.v[i] \in Lower
    /\ \E i \in 1..Len(password.v) : password.v[i] \in Digit

isValidPhone(phone) ==
    /\ isStringProvided(phone)
    /\ Len(phone.v) >= 10
    /\ \A i \in 1..Len(phone.v) : phone.v[i] \in Digit

\* every character of s[i..j] is neither whitespace nor "@"
Plain(s, i, j) == \A k \in i..j : s[k] \notin Whitespace \cup {"@"}

\* /^[^\s@]+@[^\s@]+\.[^\s@]+$/
isValidEmail(email) ==
    /\ isStringProvided(email)
    /\ LET s == email.v IN
        \E a \in 2..Len(s) : \E d \in (a + 2)..(Len(s) - 1) :
            /\ s[a] = "@"
            /\ s[d] = "."
            /\ Plain(s, 1, a - 1)
            /\ Plain(s, a + 1, d - 1)
            /\ Plain(s, d + 1, Len(s))

isValidRole(priority) ==
    /\ isNumberProvided(priority)
    /\ ~ParseIntIsNaN(priority.v)
    /\ parseInt(priority.v) >= 1
    /\ parseInt(priority.v) <= 5

(***************************************************************************)
(* Request bodies the clients send.                                        *)
(***************************************************************************)
Email1 == Str(<<"a", "@", "b", ".", "c">>)
Email2 == Str(<<"d", "@", "e", ".", "f">>)
BadEmail == Str(<<"a", "b", ".", "c">>)
First1 == Str(<<"A">>)
Last1 == Str(<<"B">>)
User1 == Str(<<"a", "b", "1">>)
User2 == Str(<<"c", "d", "2">>)
Phone1 == Str(<<"1", "2", "3", "4", "5", "6", "7", "8", "9", "0">>)
BadPhone == Str(<<"1", "2", "3", "-", "4", "5", "6", "7", "8", "9", "0">>)
Pass1 == Str(<<"A", "b", "c", "d", "e", "f", "g", "1">>)
Pass2 == Str(<<"Z", "y", "x", "w", "v", "u", "t", "2">>)
BadPass == Str(<<"a", "b", "c", "d", "e", "f", "g", "1">>)
Role3 == Str(<<"3">>)
Role1 == Str(<<"1">>)
BadRole == Str(<<"6">>)

Fields == {"email", "firstname", "lastname", "username", "phone", "password", "role"}

Body(email, username, phone, role) ==
    [email |-> email, firstname |-> First1, lastname |-> Last1, username |-> username,
     phone |-> phone, password |-> Pass1, role |-> role]

\* the scenario body of the specification, the value of each field that fails its check
BadValue ==
    [email |-> BadEmail, firstname |-> Undefined, lastname |-> Str(<<>>),
     username |-> Undefined, phone |-> BadPhone, password |-> BadPass, role |-> BadRole]

Corrupt(b, S) == [f \in Fields |-> IF f \in S THEN BadValue[f] ELSE b[f]]

\* bodies that pass every check of at least one variant of the chain
GoodBodies ==
    {Body(Email1, User1, Phone1, Role3), Body(Email2, User2, Phone1, Role1),
     Body(Email1, User2, Undefined, Role1), Body(Email2, User1, Phone1, Role3)}

\* the scenario body with one field that fails its check
BadBodies == {Corrupt(Body(Email1, User1, Phone1, Role3), {f}) : f \in Fields}

RegisterBodies == GoodBodies \cup BadBodies

\* the scenario body with any set of fields that fail their checks
ChainBodies == {Corrupt(Body(Email1, User1, Phone1, Role3), S) : S \in SUBSET Fields}

LoginBodies ==
    [email : {Email1, Email2, Undefined}, password : {Pass1, Pass2, Str(<<>>)}]

Variants == {"auth", "closed"}

(***************************************************************************)
(* Requests and responses.                                                 *)
(***************************************************************************)
\* request.id before the Account insert sets it
NoId == Undefined
NoResponse == [status |-> 0]
NoError == [at |-> "none"]

IdleRequest ==
    [kind |-> "none", variant |-> "auth", body |-> Undefined, pc |-> "idle",
     id |-> NoId, ran |-> <<>>, sql |-> <<>>, error |-> NoError, rows |-> <<>>,
     resp |-> NoResponse, authorization |-> Undefined]

\* response.status(status).send({message})
Message(status, message) == [status |-> status, body |-> [message |-> message]]

HasToken(resp) == resp.status # 0 /\ "accessToken" \in DOMAIN resp.body

\* the account id a 201 of either variant of POST /register reports
ResponseId(resp) ==
    IF "id" \in DOMAIN resp.body THEN resp.body.id ELSE resp.body.user.id

\* history: what the client of request r learns from its response
Observe(r, resp) ==
    IF r.kind = "register" /\ resp.status = 201
    THEN registered \cup {[email |-> r.body.email, password |-> r.body.password,
                           role |-> r.body.role, id |-> ResponseId(resp)]}
    ELSE registered

\* positions of a chain that run synchronously, without yielding to the event loop
SyncPcs ==
    {"email", "names", "phone", "password", "role", "present",
     "addValidate", "addAverage", "isbn13Param", "checkToken", "tokenTest", "hashDemo",
     "msgName", "msgValidate", "msgAverage", "msgInsert", "isbnQuery",
     "getAuthors", "getYear", "ratingAvgQuery"}

\* Node's single thread is inside a synchronous handler of some request, or a
\* response was written and its request is not yet released
Running == \E s \in Slots : req[s].pc \in SyncPcs \cup {"done"}

\* a new request is served on the first connection that is free
Free(s) == req[s].pc = "idle" /\ \A t \in 1..(s - 1) : req[t].pc # "idle"

\* the handler at position pc of request s has run
Ran(s, handler) == [req[s] EXCEPT !.ran = Append(@, handler)]

\* the handler sends a response: the chain ends
Respond(r, resp) == [r EXCEPT !.pc = "done", !.resp = resp]

\* next(): the chain continues with the handler at position pc
Continue(r, pc) == [r EXCEPT !.pc = pc]

Init ==
    /\ Account = {}
    /\ Account_Credential = <<>>
    /\ Books = {}
    /\ account_id_seq = 1
    /\ req = [s \in Slots |-> IdleRequest]
    /\ registered = {}

DbEmptied ==
    /\ Account' = {}
    /\ UNCHANGED <<Account_Credential, Books, account_id_seq>>

DbUnchanged == UNCHANGED <<Account, Account_Credential, Books, account_id_seq>>

\* The response was sent: the request and its response object are released.
Release(s) ==
    /\ req[s].pc = "done"
    /\ req' = [req EXCEPT ![s] = IdleRequest]
    /\ UNCHANGED registered
    /\ DbUnchanged

(***************************************************************************)
(* POST /register (register.ts 96-222, closed/index.ts 107-227).           *)
(***************************************************************************)
\* a POST /register with a body of Bodies arrives on connection s
RegisterReceive(s, Bodies) ==
    /\ ~Running
    /\ Free(s)
    /\ \E variant \in Variants : \E body \in Bodies :
        req' = [req EXCEPT ![s] =
                    [IdleRequest EXCEPT !.kind = "register", !.variant = variant,
                                        !.body = body, !.pc = "email"]]
    /\ UNCHANGED registered
    /\ DbUnchanged

RegisterStart(s) == RegisterReceive(s, RegisterBodies)

RegisterStartChain(s) == RegisterReceive(s, ChainBodies)

emailMiddlewareCheck(s) ==
    /\ req[s].pc = "email"
    /\ req' = [req EXCEPT ![s] =
            IF isValidEmail(req[s].body.email)
            THEN Continue(Ran(s, "email"), "names")
            ELSE Respond(Ran(s, "email"),
                    Message(400, "Invalid or missing email  - please refer to documentation"))]
    /\ UNCHANGED registered
    /\ DbUnchanged

RegisterNamesCheckSkipsPhone(s) ==
    /\ req[s].pc = "names"
    /\ req' = [req EXCEPT ![s] =
            IF /\ isStringProvided(req[s].body.firstname)
               /\ isStringProvided(req[s].body.lastname)
               /\ isStringProvided(req[s].body.username)
            THEN Continue(Ran(s, "names"), "password")
            ELSE Respond(Ran(s, "names"), Message(400, "Missing required information"))]
    /\ UNCHANGED registered
    /\ DbUnchanged

RegisterNamesCheck(s) ==
    /\ req[s].pc = "names"
    /\ req' = [req EXCEPT ![s] =
            IF /\ isStringProvided(req[s].body.firstname)
               /\ isStringProvided(req[s].body.lastname)
               /\ isStringProvided(req[s].body.username)
            THEN Continue(Ran(s, "names"), "phone")
            ELSE Respond(Ran(s, "names"), Message(400, "Missing required information"))]
    /\ UNCHANGED registered
    /\ DbUnchanged

\* the phone check of the two variants of the chain
PhoneAccepted(variant, phone) ==
    IF variant = "closed" THEN ~Truthy(phone) \/ isValidPhone(phone)
    ELSE isValidPhone(phone)

RegisterPhoneCheck(s) ==
    /\ req[s].pc = "phone"
    /\ req' = [req EXCEPT ![s] =
            IF PhoneAccepted(req[s].variant, req[s].body.phone)
            THEN Continue(Ran(s, "phone"), "password")
            ELSE Respond(Ran(s, "phone"),
                    Message(400, "Invalid or missing phone number  - please refer to documentation"))]
    /\ UNCHANGED registered
    /\ DbUnchanged

RegisterPasswordCheck(s) ==
    /\ req[s].pc = "password"
    /\ req' = [req EXCEPT ![s] =
            IF isValidPassword(req[s].body.password)
            THEN Continue(Ran(s, "password"), "role")
            ELSE Respond(Ran(s, "password"),
                    Message(400, "Invalid or missing password  - please refer to documentation"))]
    /\ UNCHANGED registered
    /\ DbUnchanged

RegisterRoleCheck(s) ==
    /\ req[s].pc = "role"
    /\ req' = [req EXCEPT ![s] =
            IF isValidRole(req[s].body.role)
            THEN Continue(Ran(s, "role"), "insertAccount")
            ELSE Respond(Ran(s, "role"),
                    Message(400, "Invalid or missing role  - please refer to documentation"))]
    /\ UNCHANGED registered
    /\ DbUnchanged

ViolatedNone(b) == {}

ViolatedUsernameOnly(b) ==
    {c \in {"account_username_key"} : \E a \in Account : a.username = b.username}

\* the uniqueness constraints of Account that inserting body b would violate
Violated(b) ==
    {c \in {"account_username_key", "account_email_key"} :
        \E a \in Account :
            \/ c = "account_username_key" /\ a.username = b.username
            \/ c = "account_email_key" /\ a.email = b.email}

AccountRowWithoutEmail(r, id) ==
    [account_id |-> id,
     firstname |-> r.body.firstname,
     lastname |-> r.body.lastname,
     username |-> id,
     email |-> id,
     phone |-> r.body.phone,
     account_role |-> r.body.role]

\* the row of INSERT INTO Account(...) VALUES ($1..$6) RETURNING account_id
AccountRow(r, id) ==
    [account_id |-> id,
     firstname |-> r.body.firstname,
     lastname |-> r.body.lastname,
     username |-> r.body.username,
     email |-> r.body.email,
     phone |-> IF r.variant = "closed"
               THEN (IF Truthy(r.body.phone) THEN r.body.phone ELSE Null)
               ELSE r.body.phone,
     account_role |-> r.body.role]

AccountInsertCatchSwapped(error) ==
    IF error.constraint = "account_username_key" THEN Message(400, "Email exists")
    ELSE IF error.constraint = "account_email_key" THEN Message(400, "Username exists")
    ELSE Message(500, "server error - contact support")

AccountInsertCatchNoEmail(error) ==
    IF error.constraint = "account_username_key" THEN Message(400, "Username exists")
    ELSE Message(500, "server error - contact support")

\* .catch of the Account insert: the response for a database error
AccountInsertCatch(error) ==
    IF error.constraint = "account_username_key" THEN Message(400, "Username exists")
    ELSE IF error.constraint = "account_email_key" THEN Message(400, "Email exists")
    ELSE Message(500, "server error - contact support")

\* The handler that inserts the Account row.  The statement succeeds, is
\* rejected for a uniqueness constraint, or fails for any other reason.
RegisterInsertAccount(s) ==
    /\ ~Running
    /\ req[s].pc = "insertAccount"
    /\ LET r == [Ran(s, "insertAccount") EXCEPT !.sql = Append(@, "INSERT Account")] IN
        \/ /\ Violated(r.body) = {}
           /\ account_id_seq <= MaxAccounts
           /\ Account' = Account \cup {AccountRow(r, Num(account_id_seq))}
           /\ account_id_seq' = account_id_seq + 1
           /\ req' = [req EXCEPT ![s] =
                        Continue([r EXCEPT !.id = Num(account_id_seq)], "insertCredential")]
        \/ /\ \E c \in Violated(r.body) :
                LET error == [at |-> "account", constraint |-> c] IN
                req' = [req EXCEPT ![s] =
                        Respond([r EXCEPT !.error = error], AccountInsertCatch(error))]
           /\ UNCHANGED <<Account, account_id_seq>>
        \/ /\ LET error == [at |-> "account", constraint |-> "none"] IN
                req' = [req EXCEPT ![s] =
                        Respond([r EXCEPT !.error = error], AccountInsertCatch(error))]
           /\ UNCHANGED <<Account, account_id_seq>>
    /\ UNCHANGED <<Account_Credential, Books, registered>>

\* `${firstname} ${lastname}`
FullName(firstname, lastname) == Str(firstname.v \o <<" ">> \o lastname.v)

\* the payload of the token issued by registration
RegisterPayload(r) == [role |-> r.body.role, id |-> r.id]

CredentialInsertThenDefaultStatus(r) ==
    [status |-> 200,
     body |-> [accessToken |-> JwtSign(RegisterPayload(r)), id |-> r.id]]

\* .then of the Credential insert: 201 with the token, and the user or the id
CredentialInsertThen(r) ==
    [status |-> 201,
     body |-> IF r.variant = "closed"
              THEN [accessToken |-> JwtSign(RegisterPayload(r)), id |-> r.id]
              ELSE [accessToken |-> JwtSign(RegisterPayload(r)),
                    user |-> [name |-> FullName(r.body.firstname, r.body.lastname),
                              email |-> r.body.email,
                              role |-> r.body.role,
                              id |-> r.id]]]

CredentialInsertCatchAs400(error) == Message(400, "Invalid Credentials")

\* .catch of the Credential insert
CredentialInsertCatch(error) == Message(500, "server error - contact support")

CredentialRowNoId(r, salt) ==
    [account_id |-> NoId, salted_hash |-> generateHash(r.body.password.v, salt), salt |-> salt]

\* the row of INSERT INTO Account_Credential(account_id, salted_hash, salt)
CredentialRow(r, salt) ==
    [account_id |-> r.id, salted_hash |-> generateHash(r.body.password.v, salt), salt |-> salt]

\* The handler that salts and hashes the password and inserts the Credential row.
RegisterInsertCredential(s) ==
    /\ ~Running
    /\ req[s].pc = "insertCredential"
    /\ LET r == [Ran(s, "insertCredential") EXCEPT
                    !.sql = Append(@, "INSERT Account_Credential")] IN
        \/ /\ \E salt \in Salts :
                Account_Credential' = Append(Account_Credential, CredentialRow(r, salt))
           /\ req' = [req EXCEPT ![s] = Respond(r, CredentialInsertThen(r))]
           /\ registered' = Observe(r, CredentialInsertThen(r))
        \/ /\ LET error == [at |-> "credential", constraint |-> "none"] IN
                /\ req' = [req EXCEPT ![s] =
                        Respond([r EXCEPT !.error = error], CredentialInsertCatch(error))]
                /\ registered' = Observe(r, CredentialInsertCatch(error))
           /\ UNCHANGED Account_Credential
    /\ UNCHANGED <<Account, Books, account_id_seq>>

(***************************************************************************)
(* GET /hash_demo (register.ts 224-236).                                   *)
(***************************************************************************)
\* const password = 'password12345'
DemoPassword == <<"p", "a", "s", "s", "w", "o", "r", "d", "1", "2", "3", "4", "5">>

HashDemoStart(s) ==
    /\ ~Running
    /\ Free(s)
    /\ req' = [req EXCEPT ![s] = [IdleRequest EXCEPT !.kind = "hash_demo", !.pc = "hashDemo"]]
    /\ UNCHANGED registered
    /\ DbUnchanged

\* The handler: a fresh salt, the salted and the unsalted hash of the password.
hash_demo(s) ==
    /\ req[s].pc = "hashDemo"
    /\ \E salt \in Salts :
        req' = [req EXCEPT ![s] =
                Respond(Ran(s, "hashDemo"),
                        [status |-> 200,
                         body |-> [salt |-> salt,
                                   salted_hash |-> generateHash(DemoPassword, salt),
                                   unsalted_hash |-> generateHash(DemoPassword, "")]])]
    /\ UNCHANGED registered
    /\ DbUnchanged

(***************************************************************************)
(* POST /login (register.ts 294-386).                                      *)
(***************************************************************************)
LoginStart(s) ==
    /\ ~Running
    /\ Free(s)
    /\ \E body \in LoginBodies :
        req' = [req EXCEPT ![s] =
                    [IdleRequest EXCEPT !.kind = "login", !.body = body,
                                        !.pc = "present"]]
    /\ UNCHANGED registered
    /\ DbUnchanged

LoginPresenceCheckEmailOnly(s) ==
    /\ req[s].pc = "present"
    /\ req' = [req EXCEPT ![s] =
            IF isStringProvided(req[s].body.email)
            THEN Continue(Ran(s, "present"), "lookup")
            ELSE Respond(Ran(s, "present"), Message(400, "Missing required information"))]
    /\ UNCHANGED registered
    /\ DbUnchanged

LoginPresenceCheck(s) ==
    /\ req[s].pc = "present"
    /\ req' = [req EXCEPT ![s] =
            IF /\ isStringProvided(req[s].body.email)
               /\ isStringProvided(req[s].body.password)
            THEN Continue(Ran(s, "present"), "lookup")
            ELSE Respond(Ran(s, "present"), Message(400, "Missing required information"))]
    /\ UNCHANGED registered
    /\ DbUnchanged

\* one row of Account_Credential INNER JOIN Account
JoinRow(c, a) ==
    [salted_hash |-> c.salted_hash, salt |-> c.salt, account_id |-> c.account_id,
     email |-> a.email, firstname |-> a.firstname, lastname |-> a.lastname,
     phone |-> a.phone, username |-> a.username, account_role |-> a.account_role]

\* the rows of the join for the credentials cs, WHERE Account.email = email
RECURSIVE JoinRows(_, _)
JoinRows(cs, email) ==
    IF cs = <<>> THEN <<>>
    ELSE LET as == {a \in Account : a.account_id = Head(cs).account_id /\ a.email = email}
         IN  (IF as = {} THEN <<>> ELSE <<JoinRow(Head(cs), CHOOSE a \in as : TRUE)>>)
                \o JoinRows(Tail(cs), email)

LoginPayloadAdminRole(row) ==
    [name |-> row.firstname, role |-> Str(<<"A", "d", "m", "i", "n">>), id |-> row.account_id]

\* the payload of the token issued by login
LoginPayload(row) ==
    [name |-> row.firstname, role |-> row.account_role, id |-> row.account_id]

\* the response of the rowCount == 0 branch
LoginNoRowsUserNotFound == Message(404, "User not found")

LoginNoRows == Message(400, "Invalid Credentials")

\* storedSaltedHash === providedSaltedHash
HashMatchesAnyPassword(r, row) == row.salted_hash = generateHash(row.salted_hash.pw, row.salt)

HashMatches(r, row) == row.salted_hash = generateHash(r.body.password.v, row.salt)

\* .then of the lookup: the response for the rows the statement returned
LoginThen(r, rows) ==
    IF Len(rows) = 0 THEN LoginNoRows
    ELSE IF Len(rows) > 1 THEN Message(500, "server error - contact support")
    ELSE IF HashMatches(r, rows[1])
         THEN [status |-> 200,
               body |-> [accessToken |-> JwtSign(LoginPayload(rows[1])),
                         user |-> [id |-> rows[1].account_id,
                                   email |-> rows[1].email,
                                   name |-> FullName(rows[1].firstname, rows[1].lastname),
                                   role |-> Str(<<"A", "d", "m", "i", "n">>)]]]
         ELSE Message(400, "Invalid Credentials")

\* .catch of the lookup
LoginCatch(error) == Message(500, "server error - contact support")

\* The handler that looks the account up by email and verifies the hash.
LoginLookup(s) ==
    /\ ~Running
    /\ req[s].pc = "lookup"
    /\ LET r == [Ran(s, "lookup") EXCEPT !.sql = Append(@, "SELECT Account_Credential")] IN
        \/ LET rows == JoinRows(Account_Credential, r.body.email) IN
                req' = [req EXCEPT ![s] = Respond([r EXCEPT !.rows = rows], LoginThen(r, rows))]
        \/ LET error == [at |-> "lookup", constraint |-> "none"] IN
                req' = [req EXCEPT ![s] =
                        Respond([r EXCEPT !.error = error], LoginCatch(error))]
    /\ UNCHANGED registered
    /\ DbUnchanged

(***************************************************************************)
(* The auth flows: any interleaving of register and login requests.        *)
(***************************************************************************)
Next ==
    \E s \in Slots :
        \/ RegisterStart(s)
        \/ emailMiddlewareCheck(s)
        \/ RegisterNamesCheck(s)
        \/ RegisterPhoneCheck(s)
        \/ RegisterPasswordCheck(s)
        \/ RegisterRoleCheck(s)
        \/ RegisterInsertAccount(s)
        \/ RegisterInsertCredential(s)
        \/ LoginStart(s)
        \/ LoginPresenceCheck(s)
        \/ LoginLookup(s)
        \/ HashDemoStart(s)
        \/ hash_demo(s)
        \/ Release(s)

Spec == Init /\ [][Next]_vars

(***************************************************************************)
(* The registration chain alone: one connection, and every combination of  *)
(* fields that fail their checks.                                          *)
(***************************************************************************)
NextChain ==
    \/ RegisterStartChain(1)
    \/ emailMiddlewareCheck(1)
    \/ RegisterNamesCheck(1)
    \/ RegisterPhoneCheck(1)
    \/ RegisterPasswordCheck(1)
    \/ RegisterRoleCheck(1)
    \/ RegisterInsertAccount(1)
    \/ RegisterInsertCredential(1)
    \/ Release(1)

SpecChain == Init /\ [][NextChain]_vars

(***************************************************************************)
(* Properties of the auth flows.                                           *)
(***************************************************************************)
CredentialIds == {Account_Credential[i].account_id : i \in 1..Len(Account_Credential)}

RegisteredIds == {g.id : g \in registered}

\* the Credential rows of account id
CredentialsOf(id) == {i \in 1..Len(Account_Credential) : Account_Credential[i].account_id = id}

Done(s, kind) == req[s].kind = kind /\ req[s].pc = "done"

\* C1: a Credential row exists for an account id if and only if the
\* registration that created that Account was answered 201.
CredentialIffRegistered ==
    /\ CredentialIds = RegisteredIds
    /\ \A a \in Account : (CredentialsOf(a.account_id) # {}) <=> (a.account_id \in RegisteredIds)
    /\ CredentialIds \subseteq {a.account_id : a \in Account}

\* one account completed its registration and another one was left without Credential
CredentialIffRegisteredWitness ==
    /\ \E a \in Account : a.account_id \in RegisteredIds /\ CredentialsOf(a.account_id) # {}
    /\ \E a \in Account : a.account_id \notin RegisteredIds /\ CredentialsOf(a.account_id) = {}

\* C2: when the Account insert succeeded and the Credential insert fails, the
\* request ends with 500 'server error - contact support' and no token, and the
\* Account row is in the store with no Credential row.
OrphanAfterCredentialFailure ==
    \A s \in Slots :
        (Done(s, "register") /\ req[s].error.at = "credential") =>
            /\ req[s].resp = Message(500, "server error - contact support")
            /\ ~HasToken(req[s].resp)
            /\ req[s].id # NoId
            /\ \E a \in Account : a.account_id = req[s].id /\ a.email = req[s].body.email
            /\ CredentialsOf(req[s].id) = {}

OrphanAfterCredentialFailureWitness ==
    \E s \in Slots :
        /\ Done(s, "register")
        /\ req[s].error.at = "credential"
        /\ req[s].sql = <<"INSERT Account", "INSERT Account_Credential">>
        /\ \E a \in Account : a.account_id = req[s].id

\* the login lookup of connection s executes without a database error
LookupStep(s) ==
    /\ req[s].kind = "login"
    /\ req[s].pc = "lookup"
    /\ req'[s].pc = "done"
    /\ req'[s].error = NoError

\* C3: once POST /register returned 201 for email E, password P, role R and
\* account id I, a POST /login with E and P returns 200 with a token whose
\* payload carries id = I and role = R.
RegisterLoginRoundTrip ==
    [][\A s \in Slots : \A g \in registered :
        (LookupStep(s) /\ g.email = req[s].body.email /\ g.password = req[s].body.password) =>
            /\ req'[s].resp.status = 200
            /\ HasToken(req'[s].resp)
            /\ req'[s].resp.body.accessToken.payload.id = g.id
            /\ req'[s].resp.body.accessToken.payload.role = g.role]_vars

RegisterLoginRoundTripWitness ==
    \E s \in Slots : \E g \in registered :
        /\ Done(s, "login")
        /\ g.email = req[s].body.email
        /\ g.password = req[s].body.password
        /\ req[s].resp.status = 200
        /\ req[s].resp.body.accessToken.payload.id = g.id

\* the email of the login on connection s belongs to no account
UnknownEmail(s) == \A a \in Account : a.email # req[s].body.email

\* the email of the login on connection s was registered with another password
WrongPassword(s) ==
    \E g \in registered : g.email = req[s].body.email /\ g.password # req[s].body.password

\* C4: a login with a registered email and a wrong password and a login with
\* an email that has no account get the same answer, 400 'Invalid
\* Credentials', and no token.
NonEnumeration ==
    \A s \in Slots :
        (/\ Done(s, "login")
         /\ req[s].ran = <<"present", "lookup">>
         /\ req[s].error = NoError
         /\ UnknownEmail(s) \/ WrongPassword(s)) =>
            /\ req[s].resp = Message(400, "Invalid Credentials")
            /\ ~HasToken(req[s].resp)

NonEnumerationWitness ==
    \E s \in Slots :
        /\ Done(s, "login")
        /\ req[s].error = NoError
        /\ WrongPassword(s)
        /\ req[s].resp.status = 400

\* the Account insert of connection s executes and the database is healthy
AccountInsertStep(s) ==
    /\ req[s].pc = "insertAccount"
    /\ req'[s].pc # "insertAccount"
    /\ ~(req'[s].error.at = "account" /\ req'[s].error.constraint = "none")

\* an account that completed its registration has this username (email)
RegisteredUsername(u) == \E a \in Account : a.username = u /\ a.account_id \in RegisteredIds
RegisteredEmail(e) == \E a \in Account : a.email = e /\ a.account_id \in RegisteredIds

UnusedUsername(u) == \A a \in Account : a.username # u
UnusedEmail(e) == \A a \in Account : a.email # e

\* C5: after a successful registration with username U and email E, a valid
\* POST /register with U and an unused email fails with 400 'Username exists',
\* one with E and an unused username fails with 400 'Email exists', and
\* neither adds an Account row or a Credential row.
DuplicateRejected ==
    [][\A s \in Slots :
        AccountInsertStep(s) =>
            /\ (RegisteredUsername(req[s].body.username) /\ UnusedEmail(req[s].body.email)) =>
                    /\ req'[s].resp = Message(400, "Username exists")
                    /\ Account' = Account
                    /\ Account_Credential' = Account_Credential
            /\ (RegisteredEmail(req[s].body.email) /\ UnusedUsername(req[s].body.username)) =>
                    /\ req'[s].resp = Message(400, "Email exists")
                    /\ Account' = Account
                    /\ Account_Credential' = Account_Credential]_vars

DuplicateRejectedWitness ==
    \E s \in Slots :
        /\ Done(s, "register")
        /\ req[s].resp = Message(400, "Username exists")
        /\ RegisteredUsername(req[s].body.username)
        /\ UnusedEmail(req[s].body.email)

\* the order of the checks of the registration chain
ChainOrder == <<"email", "names", "phone", "password", "role">>

\* the rejection of each check
Rejection ==
    [email |-> Message(400, "Invalid or missing email  - please refer to documentation"),
     names |-> Message(400, "Missing required information"),
     phone |-> Message(400, "Invalid or missing phone number  - please refer to documentation"),
     password |-> Message(400, "Invalid or missing password  - please refer to documentation"),
     role |-> Message(400, "Invalid or missing role  - please refer to documentation")]

\* the body of request r passes the named check
Passes(check, r) ==
    CASE check = "email" -> isValidEmail(r.body.email)
      [] check = "names" -> /\ isStringProvided(r.body.firstname)
                            /\ isStringProvided(r.body.lastname)
                            /\ isStringProvided(r.body.username)
      [] check = "phone" -> PhoneAccepted(r.variant, r.body.phone)
      [] check = "password" -> isValidPassword(r.body.password)
      [] check = "role" -> isValidRole(r.body.role)

\* the positions in ChainOrder of the checks the body of r fails
Failing(r) == {i \in 1..Len(ChainOrder) : ~Passes(ChainOrder[i], r)}

FirstFailing(r) == CHOOSE i \in Failing(r) : \A j \in Failing(r) : i <= j

\* C7: POST /register checks email, names, phone, password and role in that
\* order: a request failing several checks is answered with the 400 of the
\* first failing check, and no later check, insert or token issuance runs.
ChecksInOrder ==
    \A s \in Slots :
        (req[s].kind = "register" /\ Failing(req[s]) # {}) =>
            LET r == req[s]
                f == FirstFailing(r)
            IN  /\ r.pc \notin {"insertAccount", "insertCredential"}
                /\ Len(r.ran) <= f
                /\ r.ran = SubSeq(ChainOrder, 1, Len(r.ran))
                /\ r.sql = <<>>
                /\ ~HasToken(r.resp)
                /\ r.pc = "done" => (r.resp = Rejection[ChainOrder[f]] /\ Len(r.ran) = f)

\* a request that fails two checks, the first of them not the first of the chain
ChecksInOrderWitness ==
    \E s \in Slots :
        /\ Done(s, "register")
        /\ Cardinality(Failing(req[s])) >= 2
        /\ FirstFailing(req[s]) = 3
        /\ req[s].resp = Rejection.phone

\* C8: when the Account insert fails, a violation of the username constraint
\* yields 400 'Username exists', one of the email constraint 400 'Email
\* exists', any other failure 500 'server error - contact support'; the
\* Credential insert is not attempted and no token is issued.
AccountInsertFailure ==
    \A s \in Slots :
        (Done(s, "register") /\ req[s].error.at = "account") =>
            LET r == req[s] IN
            /\ r.error.constraint = "account_username_key" =>
                    /\ r.resp = Message(400, "Username exists")
                    /\ ~UnusedUsername(r.body.username)
            /\ r.error.constraint = "account_email_key" =>
                    /\ r.resp = Message(400, "Email exists")
                    /\ ~UnusedEmail(r.body.email)
            /\ r.error.constraint = "none" =>
                    r.resp = Message(500, "server error - contact support")
            /\ r.sql = <<"INSERT Account">>
            /\ r.ran = ChainOrder \o <<"insertAccount">>
            /\ r.id = NoId
            /\ ~HasToken(r.resp)

AccountInsertFailureWitness ==
    \E s \in Slots :
        /\ Done(s, "register")
        /\ req[s].error.at = "account"
        /\ req[s].error.constraint = "account_email_key"
        /\ req[s].resp.status = 400

\* the Credential insert of connection s executes without a database error
CredentialInsertStep(s) ==
    /\ req[s].pc = "insertCredential"
    /\ req'[s].pc = "done"
    /\ req'[s].error = NoError

\* C9: a valid POST /register with an unused username and email, the database
\* healthy, returns 201 with a token and the new account id; the store gains
\* exactly one Account row and one Credential row for that id, and no
\* existing row changes.
RegistrationSucceeds ==
    [][\A s \in Slots :
        /\ (/\ AccountInsertStep(s)
            /\ UnusedUsername(req[s].body.username)
            /\ UnusedEmail(req[s].body.email)) =>
                /\ req'[s].pc = "insertCredential"
                /\ req'[s].id \notin {a.account_id : a \in Account}
                /\ \E row \in Account' :
                    /\ Account' = Account \cup {row}
                    /\ row.account_id = req'[s].id
                    /\ row.username = req[s].body.username
                    /\ row.email = req[s].body.email
                /\ Account_Credential' = Account_Credential
        /\ CredentialInsertStep(s) =>
                /\ req'[s].resp.status = 201
                /\ HasToken(req'[s].resp)
                /\ ResponseId(req'[s].resp) = req[s].id
                /\ Account' = Account
                /\ Cardinality({a \in Account : a.account_id = req[s].id}) = 1
                /\ Len(Account_Credential') = Len(Account_Credential) + 1
                /\ SubSeq(Account_Credential', 1, Len(Account_Credential)) = Account_Credential
                /\ Account_Credential'[Len(Account_Credential')].account_id = req[s].id
                /\ CredentialsOf(req[s].id) = {}]_vars

\* a second registration was answered 201 with its account id
RegistrationSucceedsWitness ==
    \E s \in Slots :
        /\ Done(s, "register")
        /\ req[s].resp.status = 201
        /\ ResponseId(req[s].resp) = req[s].id
        /\ Cardinality(Account) = 2
        /\ Len(Account_Credential) = 2

\* C10: a token is issued only on a Success path: by registration after the
\* Credential row was inserted, with payload {role, id} of the request's role
\* and the new account id; by login after the recomputed hash equalled the
\* stored one, with payload {name, role, id} of the stored account row.
TokenOnlyOnSuccess ==
    \A s \in Slots :
        LET r == req[s] IN
        /\ r.resp.status \in {400, 500} => ~HasToken(r.resp)
        /\ (HasToken(r.resp) /\ r.kind = "register") =>
            /\ r.resp.status = 201
            /\ r.sql = <<"INSERT Account", "INSERT Account_Credential">>
            /\ CredentialsOf(r.id) # {}
            /\ r.resp.body.accessToken = JwtSign([role |-> r.body.role, id |-> r.id])
            /\ \E a \in Account : a.account_id = r.id
        /\ (HasToken(r.resp) /\ r.kind = "login") =>
            /\ r.resp.status = 200
            /\ \E a \in Account : \E i \in CredentialsOf(a.account_id) :
                /\ a.email = r.body.email
                /\ Account_Credential[i].salted_hash =
                        generateHash(r.body.password.v, Account_Credential[i].salt)
                /\ r.resp.body.accessToken =
                        JwtSign([name |-> a.firstname, role |-> a.account_role,
                                 id |-> a.account_id])

TokenOnlyOnSuccessWitness ==
    \E s \in Slots : Done(s, "login") /\ HasToken(req[s].resp)

(***************************************************************************)
(* The catalog: library.ts and message.ts.                                 *)
(***************************************************************************)
Isbn1 == Str(<<"9", "7", "8", "0", "0", "0", "0", "0", "0", "0", "0", "0", "1">>)
Isbn2 == Str(<<"9", "7", "8", "0", "0", "0", "0", "0", "0", "0", "0", "0", "2">>)
ShortIsbn == Str(<<"9", "7", "8">>)
Title1 == Str(<<"T", "1">>)
Title2 == Str(<<"T", "2">>)
Author1 == Str(<<"A", "1">>)
Year1 == Str(<<"1", "9", "9", "9">>)
SmallUrl == Str(<<"s">>)
LargeUrl == Str(<<"l">>)
BigUrl == Str(<<"b">>)

\* the rating counts of a body of POST /library/add
AddCounts == <<"totalRatings", "oneStar", "twoStar", "threeStar", "fourStar", "fiveStar">>

\* the rating columns of a body of PUT /library/update/ratings
RatingColumns ==
    <<"rating_count", "rating_1_star", "rating_2_star", "rating_3_star",
      "rating_4_star", "rating_5_star">>

AddBody(isbn, title, total, one) ==
    [ISBN |-> isbn, title |-> title, author |-> Author1, publicationYear |-> Year1,
     imageSmallURL |-> SmallUrl, imageLargeURL |-> LargeUrl, imageBigURL |-> Undefined,
     totalRatings |-> total, oneStar |-> one, twoStar |-> total, threeStar |-> total,
     fourStar |-> total, fiveStar |-> total, averageRating |-> Undefined]

AddBodies ==
    {AddBody(Isbn1, Title1, Undefined, Undefined),
     AddBody(Isbn2, Title2, Num(1), Num(2)),
     AddBody(Isbn1, Title2, Undefined, Undefined),
     AddBody(ShortIsbn, Title1, Undefined, Undefined),
     AddBody(Isbn1, Undefined, Undefined, Undefined),
     AddBody(Isbn2, Title2, Num(1), Num(-1)),
     AddBody(Isbn1, Title1, Undefined, Num(-1)),
     [AddBody(Isbn2, Title2, Undefined, Undefined) EXCEPT !.imageLargeURL = Undefined,
                                                         !.imageBigURL = BigUrl]}

UpdateBody(title, count, one, five) ==
    [title |-> title, rating_count |-> count, rating_1_star |-> one,
     rating_2_star |-> Undefined, rating_3_star |-> Undefined,
     rating_4_star |-> Undefined, rating_5_star |-> five]

UpdateBodies ==
    {UpdateBody(title, count, one, Undefined) :
        title \in {Title1, Title2, Undefined}, count \in {Undefined, Num(7)},
        one \in {Undefined, Num(3), Num(-1)}}
    \cup {UpdateBody(Title1, Undefined, Str(<<"3">>), Num(4))}

IsbnParams == {Isbn1, Isbn2, ShortIsbn}

MessageBody(name, isbn, title, date) ==
    [name |-> name, message |-> Str(<<"m">>), ISBN |-> isbn, Title |-> title,
     Author |-> Author1, Date |-> date]

MessageBodies ==
    {MessageBody(Str(<<"n">>), Isbn1, Title1, Year1),
     MessageBody(Undefined, Isbn1, Title1, Year1),
     MessageBody(Str(<<"n">>), Undefined, Title1, Year1),
     MessageBody(Str(<<"n">>), ShortIsbn, Title1, Year1),
     MessageBody(Str(<<"n">>), ShortIsbn, Undefined, Year1),
     MessageBody(Str(<<"n">>), Isbn1, Title1, Undefined),
     MessageBody(Str(<<"n">>), Isbn1, Undefined, Undefined)}

\* a parameter of a statement as the database receives it: undefined is sent as NULL
SqlValue(x) == IF x = Undefined THEN Null ELSE x

\* value == null
IsNullish(x) == x.t \in {"undefined", "null"}

\* String(value).length == 13, for a value that is a string or absent
HasLength13(x) == x.t = "string" /\ Len(x.v) = 13

\* value < 0, for a number or a numeric string
Negative(x) ==
    CASE x.t = "number" -> x.v < 0
      [] x.t = "string" -> /\ Len(x.v) > 0
                           /\ x.v[1] = "-"
                           /\ \E i \in 1..Len(x.v) : x.v[i] \in Digit \ {"0"}
      [] OTHER -> FALSE

\* Number.isInteger(value): the numbers of the model are integers
NumberIsInteger(x) == x.t = "number"

\* the number a count contributes to the weighted sum
CountValue(x) == x.v

\* (fiveStar * 5 + fourStar * 4 + threeStar * 3 + twoStar * 2 + oneStar) / totalRatings,
\* kept as an exact quotient
AverageRating(b) ==
    [t |-> "number",
     num |-> CountValue(b.fiveStar) * 5 + CountValue(b.fourStar) * 4
             + CountValue(b.threeStar) * 3 + CountValue(b.twoStar) * 2
             + CountValue(b.oneStar),
     den |-> CountValue(b.totalRatings)]

(***************************************************************************)
(* POST /library/add (library.ts 216-400).                                 *)
(***************************************************************************)
LibraryAddStart(s) ==
    /\ ~Running
    /\ Free(s)
    /\ \E body \in AddBodies :
        req' = [req EXCEPT ![s] =
                    [IdleRequest EXCEPT !.kind = "add", !.body = body, !.pc = "addValidate"]]
    /\ UNCHANGED registered
    /\ DbUnchanged

\* the checks of the first handler, in order, with the message of each
AddChecks ==
    <<[field |-> "ISBN",
       message |-> "Invalid or missing isbn13 - please refer to documentation"],
      [field |-> "title",
       message |-> "Invalid or missing book title - please refer to documentation"],
      [field |-> "author",
       message |-> "Invalid or missing book author - please refer to documentation"],
      [field |-> "publicationYear",
       message |-> "Invalid or missing publication year - please refer to documentation"],
      [field |-> "imageSmallURL",
       message |-> "Invalid or missing small image url - please refer to the documentation"],
      [field |-> "imageLargeURL",
       message |-> "Invalid or missing large image url - please refer to the documentation"]>>

AddCheckPasses(field, b) ==
    CASE field = "ISBN" -> HasLength13(b.ISBN) /\ isNumberProvided(b.ISBN)
      [] field = "publicationYear" -> isNumberProvided(b.publicationYear)
      [] OTHER -> isStringProvided(b[field])

\* the positions in AddChecks of the checks body b fails
AddFailing(b) == {i \in 1..Len(AddChecks) : ~AddCheckPasses(AddChecks[i].field, b)}

LibraryAddValidate(s) ==
    /\ req[s].pc = "addValidate"
    /\ LET r == Ran(s, "addValidate")
           failing == AddFailing(r.body)
       IN  req' = [req EXCEPT ![s] =
                IF failing = {}
                THEN Continue(r, "addAverage")
                ELSE LET f == CHOOSE i \in failing : \A j \in failing : i <= j
                     IN  Respond(r, Message(400, AddChecks[f].message))]
    /\ UNCHANGED registered
    /\ DbUnchanged

\* every rating count of the body is provided
AllCountsProvided(b) == \A i \in 1..Len(AddCounts) : isNumberProvided(b[AddCounts[i]])

\* The handler that computes request.body.averageRating.
LibraryAddAverage(s) ==
    /\ req[s].pc = "addAverage"
    /\ LET r == Ran(s, "addAverage")
           b == r.body
       IN  req' = [req EXCEPT ![s] =
                IF AllCountsProvided(b)
                THEN IF \E i \in 1..Len(AddCounts) : Negative(b[AddCounts[i]])
                     THEN Respond(r, Message(400, "Rating counts must be non-negative integers"))
                     ELSE Continue([r EXCEPT !.body.averageRating = AverageRating(b)],
                                   "addInsert")
                ELSE Continue([r EXCEPT !.body.averageRating = Null], "addInsert")]
    /\ UNCHANGED registered
    /\ DbUnchanged

\* the row INSERT INTO BOOKS stores for the body of request r
BookRow(r) ==
    [isbn13 |-> SqlValue(r.body.ISBN),
     authors |-> SqlValue(r.body.author),
     publication_year |-> SqlValue(r.body.publicationYear),
     title |-> SqlValue(r.body.title),
     rating_avg |-> SqlValue(r.body.averageRating),
     rating_count |-> SqlValue(r.body.totalRatings),
     rating_1_star |-> SqlValue(r.body.oneStar),
     rating_2_star |-> SqlValue(r.body.twoStar),
     rating_3_star |-> SqlValue(r.body.threeStar),
     rating_4_star |-> SqlValue(r.body.fourStar),
     rating_5_star |-> SqlValue(r.body.fiveStar),
     image_url |-> SqlValue(r.body.imageBigURL),
     image_small_url |-> SqlValue(r.body.imageSmallURL)]

\* the uniqueness constraints of Books a new row would violate
BookViolated(row) ==
    {"title" : b \in {b \in Books : b.title = row.title}}
    \cup {"isbn" : b \in {b \in Books : b.isbn13 = row.isbn13}}

\* the Book object of the 201 response
BookObject(r) ==
    [ISBN |-> r.body.ISBN, author |-> r.body.author, date |-> r.body.publicationYear,
     title |-> r.body.title, AverageRating |-> r.body.averageRating,
     totalRatings |-> r.body.totalRatings, oneStar |-> r.body.oneStar,
     twoStar |-> r.body.twoStar, threeStar |-> r.body.threeStar,
     fourStar |-> r.body.fourStar, fiveStar |-> r.body.fiveStar,
     imageBigURL |-> r.body.imageBigURL, imageSmallURL |-> r.body.imageSmallURL]

LibraryAddThen(r) == [status |-> 201, body |-> [Book |-> BookObject(r)]]

LibraryAddCatch(error) ==
    CASE error.detail = "title" -> Message(400, "Title already exists")
      [] error.detail = "isbn" -> Message(400, "isbn13 already exists")
      [] OTHER -> Message(500, "server error - contact support")

\* The handler that inserts the book.
LibraryAddInsert(s) ==
    /\ ~Running
    /\ req[s].pc = "addInsert"
    /\ LET r == [Ran(s, "addInsert") EXCEPT !.sql = Append(@, "INSERT Books")]
           row == BookRow(r)
       IN
        \/ /\ BookViolated(row) = {}
           /\ Books' = Books \cup {row}
           /\ req' = [req EXCEPT ![s] = Respond(r, LibraryAddThen(r))]
        \/ /\ \E detail \in BookViolated(row) \cup {"none"} :
                LET error == [at |-> "addInsert", detail |-> detail] IN
                    req' = [req EXCEPT ![s] =
                                Respond([r EXCEPT !.error = error], LibraryAddCatch(error))]
           /\ UNCHANGED Books
    /\ UNCHANGED <<Account, Account_Credential, account_id_seq, registered>>

(***************************************************************************)
(* PUT /library/update/ratings (library.ts 422-482).                       *)
(***************************************************************************)
validateUpdateRequest(b) ==
    IF \/ ~Truthy(b.title)
       \/ /\ IsNullish(b.rating_1_star)
          /\ IsNullish(b.rating_2_star)
          /\ IsNullish(b.rating_3_star)
          /\ IsNullish(b.rating_4_star)
          /\ IsNullish(b.rating_5_star)
    THEN [valid |-> FALSE, message |-> "At least one rating count must be provided"]
    ELSE IF \E i \in 1..Len(RatingColumns) :
                LET value == b[RatingColumns[i]] IN
                    ~IsNullish(value) /\ (~NumberIsInteger(value) \/ Negative(value))
         THEN [valid |-> FALSE, message |-> "Rating counts must be non-negative integers"]
         ELSE [valid |-> TRUE, message |-> ""]

checkBookExistsAlways(title) == TRUE

\* SELECT * FROM Books WHERE title = $1 returned a row
checkBookExists(title) == \E b \in Books : b.title = SqlValue(title)

\* The handler runs up to its first await: the SELECT of checkBookExists is issued.
UpdateRatingsStart(s) ==
    /\ ~Running
    /\ Free(s)
    /\ \E body \in UpdateBodies :
        req' = [req EXCEPT ![s] =
                    [IdleRequest EXCEPT !.kind = "update", !.body = body,
                                        !.pc = "updateExists"]]
    /\ UNCHANGED registered
    /\ DbUnchanged

UpdateRatingsCatch(error) == Message(500, "Server error - please contact support")

\* The SELECT completes: 404, the validation of the body, or the UPDATE is issued.
UpdateRatingsCheckExists(s) ==
    /\ ~Running
    /\ req[s].pc = "updateExists"
    /\ LET r == [Ran(s, "updateExists") EXCEPT !.sql = Append(@, "SELECT Books")]
           validation == validateUpdateRequest(r.body)
       IN
        \/ req' = [req EXCEPT ![s] =
                IF ~checkBookExists(r.body.title)
                THEN Respond(r, Message(404, "Book title not found"))
                ELSE IF ~validation.valid
                     THEN Respond(r, Message(400, validation.message))
                     ELSE Continue(r, "updateQuery")]
        \/ LET error == [at |-> "updateExists"] IN
                req' = [req EXCEPT ![s] =
                            Respond([r EXCEPT !.error = error], UpdateRatingsCatch(error))]
    /\ UNCHANGED registered
    /\ DbUnchanged

UpdatedRowEveryColumn(row, b) ==
    [c \in DOMAIN row |->
        IF \E i \in 1..Len(RatingColumns) : RatingColumns[i] = c
        THEN SqlValue(b[c])
        ELSE row[c]]

\* the row after SET <column> = <value> for every rating column the body supplies
UpdatedRow(row, b) ==
    [c \in DOMAIN row |->
        IF (\E i \in 1..Len(RatingColumns) : RatingColumns[i] = c) /\ ~IsNullish(b[c])
        THEN b[c]
        ELSE row[c]]

\* The UPDATE completes.
UpdateRatingsUpdate(s) ==
    /\ ~Running
    /\ req[s].pc = "updateQuery"
    /\ LET r == [Ran(s, "updateQuery") EXCEPT !.sql = Append(@, "UPDATE Books")] IN
        \/ /\ Books' = {IF row.title = r.body.title THEN UpdatedRow(row, r.body) ELSE row :
                            row \in Books}
           /\ req' = [req EXCEPT ![s] =
                        Respond(r, Message(200, "Book's ratings have been updated"))]
        \/ /\ LET error == [at |-> "updateQuery"] IN
                req' = [req EXCEPT ![s] =
                            Respond([r EXCEPT !.error = error], UpdateRatingsCatch(error))]
           /\ UNCHANGED Books
    /\ UNCHANGED <<Account, Account_Credential, account_id_seq, registered>>

(***************************************************************************)
(* DELETE /library/remove/ISBN/:isbn13 (library.ts 501-529).               *)
(***************************************************************************)
RemoveIsbnStart(s) ==
    /\ ~Running
    /\ Free(s)
    /\ \E isbn13 \in IsbnParams :
        req' = [req EXCEPT ![s] =
                    [IdleRequest EXCEPT !.kind = "remove", !.body = [isbn13 |-> isbn13],
                                        !.pc = "isbn13Param"]]
    /\ UNCHANGED registered
    /\ DbUnchanged

ValidIsbn13(isbn13) == isNumberProvided(isbn13) /\ Len(isbn13.v) = 13

myValidIsbn13Param(s) ==
    /\ req[s].pc = "isbn13Param"
    /\ req' = [req EXCEPT ![s] =
            IF ValidIsbn13(req[s].body.isbn13)
            THEN Continue(Ran(s, "isbn13Param"), "removeIsbn")
            ELSE Respond(Ran(s, "isbn13Param"),
                    Message(400, "Invalid or missing isbn13 - please refer to documentation"))]
    /\ UNCHANGED registered
    /\ DbUnchanged

\* the columns a deleted entry is rendered from
format(resultRow) ==
    [isbn13 |-> resultRow.isbn13, title |-> resultRow.title, authors |-> resultRow.authors,
     publication_year |-> resultRow.publication_year,
     rating_count |-> resultRow.rating_count, rating_avg |-> resultRow.rating_avg]

RemoveIsbnThenAlwaysEntries(r, rows) ==
    [status |-> 200, body |-> [entries |-> {format(row) : row \in rows}]]

RemoveIsbnThen(r, rows) ==
    IF rows # {}
    THEN [status |-> 200, body |-> [entries |-> {format(row) : row \in rows}]]
    ELSE [status |-> 404,
          body |-> [message |-> "No book for isbn13 found", isbn13 |-> r.body.isbn13]]

RemoveIsbnCatch(error) == Message(500, "server error - contact support")

RemoveIsbnDelete(s) ==
    /\ ~Running
    /\ req[s].pc = "removeIsbn"
    /\ LET r == [Ran(s, "removeIsbn") EXCEPT !.sql = Append(@, "DELETE Books")]
           rows == {row \in Books : row.isbn13 = r.body.isbn13}
       IN
        \/ /\ Books' = Books \ rows
           /\ req' = [req EXCEPT ![s] = Respond(r, RemoveIsbnThen(r, rows))]
        \/ /\ LET error == [at |-> "removeIsbn"] IN
                req' = [req EXCEPT ![s] =
                            Respond([r EXCEPT !.error = error], RemoveIsbnCatch(error))]
           /\ UNCHANGED Books
    /\ UNCHANGED <<Account, Account_Credential, account_id_seq, registered>>

(***************************************************************************)
(* POST on the message router root (message.ts 148-312).                   *)
(***************************************************************************)
MessagePostStart(s) ==
    /\ ~Running
    /\ Free(s)
    /\ \E body \in MessageBodies :
        req' = [req EXCEPT ![s] =
                    [IdleRequest EXCEPT !.kind = "message", !.body = body, !.pc = "msgName"]]
    /\ UNCHANGED registered
    /\ DbUnchanged

mwValidNameMessageBody(s) ==
    /\ req[s].pc = "msgName"
    /\ req' = [req EXCEPT ![s] =
            IF isStringProvided(req[s].body.name) /\ isStringProvided(req[s].body.message)
            THEN Continue(Ran(s, "msgName"), "msgValidate")
            ELSE Respond(Ran(s, "msgName"),
                    Message(400, "Missing required information - please refer to documentation"))]
    /\ UNCHANGED registered
    /\ DbUnchanged

\* A handler throws: the framework's error handler answers 500 unless a
\* response was already sent, and the chain ends.
UncaughtError(r) ==
    IF r.resp.status = 0
    THEN Respond(r, [status |-> 500, body |-> [html |-> "Internal Server Error"]])
    ELSE [r EXCEPT !.pc = "done"]

\* the checks of the validation handler, in order, with the message of each
MessageChecks ==
    <<[field |-> "ISBN",
       message |-> "Invalid or missing ISBN - please refer to documentation"],
      [field |-> "Title",
       message |-> "Invalid or missing book title - please refer to documentation"],
      [field |-> "Author",
       message |-> "Invalid or missing book Author - please refer to documentation"],
      [field |-> "Date",
       message |-> "Invalid or missing publication date - please refer to documentation"]>>

MessageCheckPasses(field, b) ==
    CASE field = "ISBN" -> HasLength13(b.ISBN) /\ isNumberProvided(b.ISBN)
      [] field = "Date" -> isNumberProvided(b.Date)
      [] OTHER -> isStringProvided(b[field])

\* The checks from position i on.  No branch returns after sending: a failing
\* check sends its 400, and a send after a response was sent throws.
RECURSIVE MessageSends(_, _, _)
MessageSends(b, i, st) ==
    IF i > Len(MessageChecks) \/ st.thrown
    THEN st
    ELSE IF MessageCheckPasses(MessageChecks[i].field, b)
         THEN MessageSends(b, i + 1, st)
         ELSE IF st.resp.status # 0
              THEN [st EXCEPT !.thrown = TRUE]
              ELSE MessageSends(b, i + 1,
                        [st EXCEPT !.resp = Message(400, MessageChecks[i].message)])

\* The validation handler: ISBN.length throws when the body has no ISBN.
MessagePostValidate(s) ==
    /\ req[s].pc = "msgValidate"
    /\ LET r == Ran(s, "msgValidate") IN
        req' = [req EXCEPT ![s] =
            IF IsNullish(r.body.ISBN)
            THEN UncaughtError(r)
            ELSE LET st == MessageSends(r.body, 1, [resp |-> NoResponse, thrown |-> FALSE])
                 IN  IF st.thrown
                     THEN UncaughtError([r EXCEPT !.resp = st.resp])
                     ELSE Continue([r EXCEPT !.resp = st.resp], "msgAverage")]
    /\ UNCHANGED registered
    /\ DbUnchanged

\* The handler that computes the average into a block-scoped constant.
MessagePostAverage(s) ==
    /\ req[s].pc = "msgAverage"
    /\ req' = [req EXCEPT ![s] = Continue(Ran(s, "msgAverage"), "msgInsert")]
    /\ UNCHANGED registered
    /\ DbUnchanged

\* The last handler declares (averageRating, request, response): it is called
\* with (request, response, next), and reading body.ISBN of the response
\* object throws before pool.query is reached.
MessagePostInsert(s) ==
    /\ req[s].pc = "msgInsert"
    /\ req' = [req EXCEPT ![s] = UncaughtError(Ran(s, "msgInsert"))]
    /\ UNCHANGED registered
    /\ DbUnchanged

(***************************************************************************)
(* DELETE on the message router root (message.ts 528-556, 573-601,         *)
(* 790-818): three routes for the same method and path, tried in order of  *)
(* registration; a later one runs only if the last handler of the one      *)
(* before calls next().                                                    *)
(***************************************************************************)
\* the query strings sent: ?priority=, ?ISBN=, both or none
DeleteQueries ==
    [priority : {Undefined, Str(<<"2">>), Str(<<"4">>)}, ISBN : {Undefined, Isbn1}]

MessageDeleteStart(s) ==
    /\ ~Running
    /\ Free(s)
    /\ \E query \in DeleteQueries :
        req' = [req EXCEPT ![s] =
                    [IdleRequest EXCEPT !.kind = "msgDelete", !.body = query,
                                        !.pc = "isbnQuery"]]
    /\ UNCHANGED registered
    /\ DbUnchanged

\* the middleware of the first route
mwValidISBNQuery(s) ==
    /\ req[s].pc = "isbnQuery"
    /\ req' = [req EXCEPT ![s] =
            IF isNumberProvided(req[s].body.ISBN)
            THEN Continue(Ran(s, "isbnQuery"), "deleteIsbn")
            ELSE Respond(Ran(s, "isbnQuery"),
                    Message(400, "Invalid or missing ISBN - please refer to documentation"))]
    /\ UNCHANGED registered
    /\ DbUnchanged

MessageDeleteIsbnCatch(error) == Message(500, "server error - contact support")

\* The handler of the first route: DELETE FROM BOOKS WHERE ISBN = $1.  Books
\* has no column of that name, so the statement fails.
MessageDeleteIsbn(s) ==
    /\ ~Running
    /\ req[s].pc = "deleteIsbn"
    /\ LET r == [Ran(s, "deleteIsbn") EXCEPT !.sql = Append(@, "DELETE Books")]
           error == [at |-> "deleteIsbn"]
       IN  req' = [req EXCEPT ![s] =
                    Respond([r EXCEPT !.error = error], MessageDeleteIsbnCatch(error))]
    /\ UNCHANGED registered
    /\ DbUnchanged

\* the condition of mwValidPriorityQuery, the middleware of the third route
ValidPriorityQuery(priority) ==
    /\ isNumberProvided(priority)
    /\ ~ParseIntIsNaN(priority.v)
    /\ parseInt(priority.v) >= 1
    /\ parseInt(priority.v) <= 3

(***************************************************************************)
(* The catalog flows: any interleaving of the book and message requests.   *)
(***************************************************************************)
NextLibrary ==
    \E s \in Slots :
        \/ LibraryAddStart(s)
        \/ LibraryAddValidate(s)
        \/ LibraryAddAverage(s)
        \/ LibraryAddInsert(s)
        \/ UpdateRatingsStart(s)
        \/ UpdateRatingsCheckExists(s)
        \/ UpdateRatingsUpdate(s)
        \/ RemoveIsbnStart(s)
        \/ myValidIsbn13Param(s)
        \/ RemoveIsbnDelete(s)
        \/ MessagePostStart(s)
        \/ mwValidNameMessageBody(s)
        \/ MessagePostValidate(s)
        \/ MessagePostAverage(s)
        \/ MessagePostInsert(s)
        \/ MessageDeleteStart(s)
        \/ mwValidISBNQuery(s)
        \/ MessageDeleteIsbn(s)
        \/ Release(s)

SpecLibrary == Init /\ [][NextLibrary]_vars

(***************************************************************************)
(* GET /library (library.ts 740-874): three routes for the same path, the  *)
(* first two call next() when the query is not theirs.                     *)
(***************************************************************************)
\* the query strings sent: each parameter absent, empty or with a value
SearchQueries ==
    [authors : {Undefined, Str(<<>>), Str(<<"A">>)},
     publication_year : {Undefined, Year1, Str(<<"9", "9">>)},
     rating_avg : {Undefined, Str(<<"1", "6">>), Str(<<"x">>)}]

SearchStart(s) ==
    /\ ~Running
    /\ Free(s)
    /\ \E query \in SearchQueries :
        req' = [req EXCEPT ![s] =
                    [IdleRequest EXCEPT !.kind = "search", !.body = query,
                                        !.pc = "getAuthors"]]
    /\ UNCHANGED registered
    /\ DbUnchanged

AuthorsSelectedWithYear(q) == Truthy(q.authors) /\ ~Truthy(q.rating_avg)

\* author && !ratingAvg && !publishedYear
AuthorsSelected(q) ==
    Truthy(q.authors) /\ ~Truthy(q.rating_avg) /\ ~Truthy(q.publication_year)

\* publishedYear && !ratingAvg && !authors
YearSelected(q) ==
    Truthy(q.publication_year) /\ ~Truthy(q.rating_avg) /\ ~Truthy(q.authors)

\* the condition of myValidAuthorQuery
myValidAuthorQuery(q) == isStringProvided(q.authors)

\* the condition of myValidPublicationYearQuery
myValidPublicationYearQuery(q) ==
    isNumberProvided(q.publication_year) /\ Len(q.publication_year.v) = 4

\* The handler of the first route.
GetAuthorsRoute(s) ==
    /\ req[s].pc = "getAuthors"
    /\ LET r == Ran(s, "getAuthors") IN
        req' = [req EXCEPT ![s] =
            IF AuthorsSelected(r.body)
            THEN IF myValidAuthorQuery(r.body)
                 THEN Continue(r, "authorsQuery")
                 ELSE Respond(r, Message(400,
                        "Invalid or missing author - please refer to documentation"))
            ELSE Continue(r, "getYear")]
    /\ UNCHANGED registered
    /\ DbUnchanged

\* The handler of the second route.
GetYearRoute(s) ==
    /\ req[s].pc = "getYear"
    /\ LET r == Ran(s, "getYear") IN
        req' = [req EXCEPT ![s] =
            IF YearSelected(r.body)
            THEN IF myValidPublicationYearQuery(r.body)
                 THEN Continue(r, "yearQuery")
                 ELSE Respond(r, Message(400,
                        "Invalid or missing publication_year - please refer to documentation"))
            ELSE Continue(r, "ratingAvgQuery")]
    /\ UNCHANGED registered
    /\ DbUnchanged

\* the middleware of the third route
mwValidRatingAverageQuery(s) ==
    /\ req[s].pc = "ratingAvgQuery"
    /\ req' = [req EXCEPT ![s] =
            IF isNumberProvided(req[s].body.rating_avg)
            THEN Continue(Ran(s, "ratingAvgQuery"), "ratingQuery")
            ELSE Respond(Ran(s, "ratingAvgQuery"),
                    Message(400, "Invalid or missing rating_avg - please refer to documentation"))]
    /\ UNCHANGED registered
    /\ DbUnchanged

\* hay LIKE '%' || needle || '%'
Like(hay, needle) ==
    \E i \in 0..(Len(hay) - Len(needle)) :
        \A j \in 1..Len(needle) : hay[i + j] = needle[j]

\* rating_avg = $1, for a parameter of digits
RatingEquals(avg, param) ==
    /\ avg.t = "number"
    /\ avg.den > 0
    /\ avg.num = parseInt(param.v) * avg.den

\* the rows the SELECT of the search at position pc returns
SearchRows(pc, q) ==
    CASE pc = "authorsQuery" ->
            {row \in Books : row.authors.t = "string" /\ Like(row.authors.v, q.authors.v)}
      [] pc = "yearQuery" -> {row \in Books : row.publication_year = q.publication_year}
      [] pc = "ratingQuery" -> {row \in Books : RatingEquals(row.rating_avg, q.rating_avg)}

\* SELECT isbn13, authors, publication_year, title, rating_avg
SelectedColumns(row) ==
    [isbn13 |-> row.isbn13, authors |-> row.authors,
     publication_year |-> row.publication_year, title |-> row.title,
     rating_avg |-> row.rating_avg]

\* the .then of the three searches
SearchThen(pc, rows) ==
    IF rows # {}
    THEN [status |-> 200,
          body |-> [entries |->
            IF pc = "ratingQuery"
            THEN {SelectedColumns(row) : row \in rows}
            ELSE {format([rating_count |-> Undefined] @@ SelectedColumns(row)) : row \in rows}]]
    ELSE Message(404,
            CASE pc = "authorsQuery" -> "No book associated with this author was found"
              [] pc = "yearQuery" -> "No book associated with this publication year was found"
              [] pc = "ratingQuery" -> "No book associated with this rating_avg was found")

SearchCatch(error) == Message(500, "server error - contact support")

\* The SELECT of a search completes.
SearchQuery(s) ==
    /\ ~Running
    /\ req[s].pc \in {"authorsQuery", "yearQuery", "ratingQuery"}
    /\ LET pc == req[s].pc
           r == [Ran(s, pc) EXCEPT !.sql = Append(@, "SELECT Books")]
       IN
        \/ req' = [req EXCEPT ![s] = Respond(r, SearchThen(pc, SearchRows(pc, r.body)))]
        \/ LET error == [at |-> pc] IN
                req' = [req EXCEPT ![s] =
                            Respond([r EXCEPT !.error = error], SearchCatch(error))]
    /\ UNCHANGED registered
    /\ DbUnchanged

NextSearch ==
    \E s \in Slots :
        \/ LibraryAddStart(s)
        \/ LibraryAddValidate(s)
        \/ LibraryAddAverage(s)
        \/ LibraryAddInsert(s)
        \/ SearchStart(s)
        \/ GetAuthorsRoute(s)
        \/ GetYearRoute(s)
        \/ mwValidRatingAverageQuery(s)
        \/ SearchQuery(s)
        \/ Release(s)

SpecSearch == Init /\ [][NextSearch]_vars

(***************************************************************************)
(* Properties of every endpoint.                                           *)
(***************************************************************************)
\* the input of request r fails a validation of its endpoint
FailsValidation(r) ==
    CASE r.kind = "register" -> Failing(r) # {}
      [] r.kind = "login" ->
            ~(isStringProvided(r.body.email) /\ isStringProvided(r.body.password))
      [] r.kind = "add" ->
            \/ AddFailing(r.body) # {}
            \/ /\ AllCountsProvided(r.body)
               /\ \E i \in 1..Len(AddCounts) : Negative(r.body[AddCounts[i]])
      [] r.kind = "update" -> ~validateUpdateRequest(r.body).valid
      [] r.kind = "remove" -> ~ValidIsbn13(r.body.isbn13)
      [] r.kind = "message" ->
            \/ ~(isStringProvided(r.body.name) /\ isStringProvided(r.body.message))
            \/ IsNullish(r.body.ISBN)
            \/ \E i \in 1..Len(MessageChecks) : ~MessageCheckPasses(MessageChecks[i].field, r.body)
      [] OTHER -> FALSE

\* C6: for every endpoint, a request that fails input validation is answered
\* with 400 and no SQL statement is executed for it: validation completes
\* before the first query.
ValidationBeforeQuery ==
    \A s \in Slots :
        FailsValidation(req[s]) =>
            /\ req[s].sql = <<>>
            /\ req[s].pc = "done" => req[s].resp.status = 400

(***************************************************************************)
(* Properties of POST /login.                                              *)
(***************************************************************************)
\* the body of the login on connection s lacks a non-empty email or password
MissingCredentials(s) ==
    ~(isStringProvided(req[s].body.email) /\ isStringProvided(req[s].body.password))

\* C11: POST /login with a missing or empty email or a missing or empty
\* password returns 400 'Missing required information', executes no query
\* and issues no token.
LoginMissingInformation ==
    \A s \in Slots :
        (req[s].kind = "login" /\ MissingCredentials(s)) =>
            /\ req[s].pc \in {"present", "done"}
            /\ req[s].sql = <<>>
            /\ req[s].rows = <<>>
            /\ ~HasToken(req[s].resp)
            /\ req[s].pc = "done" => req[s].resp = Message(400, "Missing required information")

\* a login with an email and an empty password was answered
LoginMissingInformationWitness ==
    \E s \in Slots :
        /\ Done(s, "login")
        /\ isStringProvided(req[s].body.email)
        /\ req[s].body.password = Str(<<>>)
        /\ req[s].resp.status = 400

\* C12: on a successful POST /login the user detail of the response reports
\* the stored values of the matched account: its id, its email, its full
\* name (firstname and lastname) and its role as stored at registration.
LoginUserDetail ==
    \A s \in Slots :
        (Done(s, "login") /\ req[s].resp.status = 200) =>
            \E a \in Account :
                /\ a.email = req[s].body.email
                /\ req[s].resp.body.user.id = a.account_id
                /\ req[s].resp.body.user.email = a.email
                /\ req[s].resp.body.user.name = FullName(a.firstname, a.lastname)
                /\ req[s].resp.body.user.role = a.account_role

(***************************************************************************)
(* Properties of an Account without Credential.                            *)
(***************************************************************************)
\* Account a was left without a Credential row: it has none and no request
\* is about to insert one for it
Orphan(a) ==
    /\ a \in Account
    /\ CredentialsOf(a.account_id) = {}
    /\ \A s \in Slots : ~(req[s].pc = "insertCredential" /\ req[s].id = a.account_id)

\* C13: an Account left without a Credential row stays unauthenticatable:
\* from then on every login lookup with its email answers 400 'Invalid
\* Credentials' (and no login with its email is answered with a token), every
\* registration reusing its email or username is rejected by the Account
\* insert with 400 'Email exists' / 'Username exists', and no step creates a
\* Credential row for it.
OrphanStaysUnauthenticatable ==
    [][\A a \in Account :
        Orphan(a) =>
            /\ a \in Account'
            /\ Orphan(a)'
            /\ \A s \in Slots :
                /\ (LookupStep(s) /\ req[s].body.email = a.email) =>
                        req'[s].resp = Message(400, "Invalid Credentials")
                /\ (req'[s].kind = "login" /\ req'[s].body.email = a.email) =>
                        /\ ~HasToken(req'[s].resp)
                        /\ req'[s].resp.status # 200
                /\ (/\ AccountInsertStep(s)
                    /\ (req[s].body.email = a.email \/ req[s].body.username = a.username)) =>
                        /\ req'[s].resp \in {Message(400, "Email exists"),
                                             Message(400, "Username exists")}
                        /\ UnusedUsername(req[s].body.username) =>
                                req'[s].resp = Message(400, "Email exists")
                        /\ UnusedEmail(req[s].body.email) =>
                                req'[s].resp = Message(400, "Username exists")
                        /\ Account' = Account
                        /\ Account_Credential' = Account_Credential]_vars

\* the lookup of a login with the email of an Account without Credential was answered
OrphanStaysUnauthenticatableWitness ==
    \E s \in Slots : \E a \in Account :
        /\ Orphan(a)
        /\ Done(s, "login")
        /\ req[s].body.email = a.email
        /\ req[s].sql # <<>>
        /\ req[s].error = NoError
        /\ req[s].resp = Message(400, "Invalid Credentials")

(***************************************************************************)
(* Properties of the catalog.                                              *)
(***************************************************************************)
\* the SELECT of the update on connection s completes without a database error
ExistsStep(s) ==
    /\ req[s].pc = "updateExists"
    /\ req'[s].pc # "updateExists"
    /\ req'[s].error = NoError

\* C14: PUT /library/update/ratings with a title that is not in the catalog
\* returns 404 'Book title not found' before any validation of the rating
\* counts: whatever the rating fields are, the answer is the 404, no UPDATE
\* is issued and the catalog is unchanged.
UnknownTitleNotFound ==
    [][\A s \in Slots :
        (ExistsStep(s) /\ \A row \in Books : row.title # req[s].body.title) =>
            /\ req'[s].resp = Message(404, "Book title not found")
            /\ req'[s].pc = "done"
            /\ req'[s].sql = <<"SELECT Books">>
            /\ Books' = Books]_vars

\* an update of an unknown title with a negative rating count was answered 404
\* while the catalog holds another book
UnknownTitleNotFoundWitness ==
    \E s \in Slots :
        /\ Done(s, "update")
        /\ req[s].resp.status = 404
        /\ IsString(req[s].body.title)
        /\ Negative(req[s].body.rating_1_star)
        /\ Books # {}

\* the DELETE of the removal on connection s completes without a database error
DeleteStep(s) ==
    /\ req[s].pc = "removeIsbn"
    /\ req'[s].pc = "done"
    /\ req'[s].error = NoError

\* the Books rows with the isbn13 of the removal on connection s
Matching(s) == {row \in Books : row.isbn13 = req[s].body.isbn13}

\* C15: DELETE /library/remove/ISBN/:isbn13 with a numeric 13-character
\* isbn13 that matches no row returns 404 with a message naming that isbn13
\* and leaves the catalog unchanged; when rows match, exactly the rows with
\* that isbn13 are removed and every other row is unchanged.
RemoveByIsbn ==
    [][\A s \in Slots :
        DeleteStep(s) =>
            /\ ValidIsbn13(req[s].body.isbn13)
            /\ Matching(s) = {} =>
                    /\ req'[s].resp.status = 404
                    /\ req'[s].resp.body.isbn13 = req[s].body.isbn13
                    /\ Books' = Books
            /\ Matching(s) # {} =>
                    /\ req'[s].resp.status = 200
                    /\ req'[s].resp.body.entries = {format(row) : row \in Matching(s)}
                    /\ Books' = {row \in Books : row.isbn13 # req[s].body.isbn13}
                    /\ Books' # Books]_vars

\* a removal that matched no row was answered 404 while the catalog holds a book
RemoveByIsbnWitness ==
    \E s \in Slots :
        /\ Done(s, "remove")
        /\ req[s].resp.status = 404
        /\ req[s].sql = <<"DELETE Books">>
        /\ Books # {}
        /\ \A row \in Books : row.isbn13 # req[s].body.isbn13

\* the insert handler of the add-book request on connection s runs to its response
BookInsertStep(s) ==
    /\ req[s].pc \in {"addInsert", "msgInsert"}
    /\ req'[s].pc = "done"

\* the isbn13 and the title of the add-book request r
BodyIsbn(r) == r.body.ISBN
BodyTitle(r) == IF r.kind = "add" THEN r.body.title ELSE r.body.Title

IsbnTaken(r) == \E row \in Books : row.isbn13 = BodyIsbn(r)
TitleTaken(r) == \E row \in Books : row.title = BodyTitle(r)

\* the 400 responses that name the ISBN constraint and the title constraint
IsbnExists == {Message(400, "isbn13 already exists"), Message(400, "ISBN exists")}
TitleExists == {Message(400, "Title already exists"), Message(400, "title exists")}

\* the outcome the insert step of connection s must have when the isbn13 or
\* the title of its body is in the catalog
DuplicateBookOutcome(s) ==
    /\ (IsbnTaken(req[s]) \/ TitleTaken(req[s])) =>
            /\ req'[s].resp.status \in {400, 500}
            /\ req'[s].resp.status = 500 =>
                    (req'[s].error # NoError /\ req'[s].error.detail = "none")
            /\ req'[s].resp.status = 400 =>
                    /\ req'[s].resp \in IsbnExists \cup TitleExists
                    /\ req'[s].resp \in IsbnExists => IsbnTaken(req[s])
                    /\ req'[s].resp \in TitleExists => TitleTaken(req[s])
    /\ (req'[s].error # NoError /\ req'[s].error.detail = "none") =>
            req'[s].resp.status = 500
    /\ req'[s].resp.status # 201 => Books' = Books

\* C16: an add-book request whose isbn13 is in the catalog is rejected with
\* 400 and a message naming the ISBN constraint, one whose title is in the
\* catalog with 400 and a message naming the title constraint, and any other
\* database error yields 500; a rejected request inserts no row and leaves
\* the existing rows unchanged.
DuplicateBookRejected ==
    [][\A s \in Slots : BookInsertStep(s) => DuplicateBookOutcome(s)]_vars

(***************************************************************************)
(* The closed routes (closed/index.ts 7-13): checkToken, then the mounted   *)
(* router.  core/middleware, tokenTest and closed_message are collaborators *)
(* outside the sources: the token check and the mounted handlers follow the *)
(* specification.                                                          *)
(***************************************************************************)
\* a bearer token as presented: what was signed, with which secret, and
\* whether its 14 days have passed
Bearer(payload, secret, expired) ==
    [jwt |-> JwtSign(payload), secret |-> secret, expired |-> expired]

\* the authorization a client presents: none, a token this service issued,
\* an expired one, and one signed with another secret
Authorizations ==
    {Undefined,
     Bearer([role |-> Role1, id |-> Num(1)], "JSON_WEB_TOKEN", FALSE),
     Bearer([role |-> Role1, id |-> Num(1)], "JSON_WEB_TOKEN", TRUE),
     Bearer([role |-> Role1, id |-> Num(1)], "forged", FALSE)}

\* the token verifies: signed with the service's secret and not expired
VerifyToken(authorization) ==
    /\ authorization # Undefined
    /\ authorization.secret = "JSON_WEB_TOKEN"
    /\ ~authorization.expired

\* the bodies sent to the closed add-book endpoint
ClosedAddBodies ==
    {AddBody(Isbn1, Title1, Undefined, Undefined),
     AddBody(ShortIsbn, Title1, Undefined, Undefined)}

\* the first handler of the router mounted behind checkToken for a request of this kind
MountedRouter == [add |-> "addValidate", jwt_test |-> "tokenTest"]

\* a request for /c/library (add a book) or /jwt_test arrives on connection s
ClosedStart(s) ==
    /\ ~Running
    /\ Free(s)
    /\ \E authorization \in Authorizations :
        \/ \E body \in ClosedAddBodies :
            req' = [req EXCEPT ![s] =
                    [IdleRequest EXCEPT !.kind = "add", !.variant = "closed", !.body = body,
                                        !.pc = "checkToken", !.authorization = authorization]]
        \/ req' = [req EXCEPT ![s] =
                    [IdleRequest EXCEPT !.kind = "jwt_test", !.variant = "closed",
                                        !.pc = "checkToken", !.authorization = authorization]]
    /\ UNCHANGED registered
    /\ DbUnchanged

checkTokenPassesAll(s) ==
    /\ req[s].pc = "checkToken"
    /\ req' = [req EXCEPT ![s] = Continue(Ran(s, "checkToken"), MountedRouter[req[s].kind])]
    /\ UNCHANGED registered
    /\ DbUnchanged

\* checkToken: next() when the token verifies, otherwise the request is
\* answered here (not authenticated or not authorized)
checkToken(s) ==
    /\ req[s].pc = "checkToken"
    /\ IF VerifyToken(req[s].authorization)
       THEN req' = [req EXCEPT ![s] =
                        Continue(Ran(s, "checkToken"), MountedRouter[req[s].kind])]
       ELSE \E status \in {401, 403} :
                req' = [req EXCEPT ![s] =
                        Respond(Ran(s, "checkToken"), Message(status, "Token is not valid"))]
    /\ UNCHANGED registered
    /\ DbUnchanged

\* the handler of /jwt_test: answers without database access
tokenTest(s) ==
    /\ req[s].pc = "tokenTest"
    /\ req' = [req EXCEPT ![s] =
                    Respond(Ran(s, "tokenTest"), Message(200, "Your token is valid"))]
    /\ UNCHANGED registered
    /\ DbUnchanged

NextClosed ==
    \E s \in Slots :
        \/ ClosedStart(s)
        \/ checkToken(s)
        \/ tokenTest(s)
        \/ LibraryAddValidate(s)
        \/ LibraryAddAverage(s)
        \/ LibraryAddInsert(s)
        \/ Release(s)

SpecClosed == Init /\ [][NextClosed]_vars

\* the request on connection s entered through a closed prefix
Closed(s) == req[s].variant = "closed" /\ req[s].kind \in {"add", "jwt_test"}

\* the request on connection s presents a token this service signed that has not expired
Authentic(s) ==
    \E payload \in {[role |-> Role1, id |-> Num(1)]} :
        req[s].authorization = Bearer(payload, "JSON_WEB_TOKEN", FALSE)

\* C17: every request to a route mounted under /jwt_test or /c/library
\* passes through checkToken before any handler of the mounted router runs;
\* a request whose token check does not succeed never reaches a handler of
\* the mounted router and causes no database access.
TokenCheckedFirst ==
    \A s \in Slots :
        Closed(s) =>
            /\ req[s].ran # <<>> => req[s].ran[1] = "checkToken"
            /\ req[s].pc \notin {"checkToken", "done"} => req[s].ran # <<>>
            /\ req[s].sql # <<>> => req[s].ran # <<>>
            /\ ~Authentic(s) =>
                    /\ req[s].pc \in {"checkToken", "done"}
                    /\ req[s].ran \in {<<>>, <<"checkToken">>}
                    /\ req[s].sql = <<>>
                    /\ req[s].pc = "done" => req[s].resp.status \in {401, 403}

\* an add-book request with a forged token was turned away while the
\* catalog holds a book added through the closed prefix
TokenCheckedFirstWitness ==
    \E s \in Slots :
        /\ Closed(s)
        /\ req[s].kind = "add"
        /\ req[s].authorization # Undefined
        /\ req[s].authorization.secret = "forged"
        /\ req[s].pc = "done"
        /\ req[s].ran = <<"checkToken">>
        /\ Books # {}

(***************************************************************************)
(* Frame of the auth flows.                                                *)
(***************************************************************************)
\* the request on connection s takes a step and is of one of the kinds
Steps(s, kinds) == req'[s] # req[s] /\ req'[s].kind \in kinds

AuthTablesUnchanged ==
    /\ Account' = Account
    /\ Account_Credential' = Account_Credential
    /\ account_id_seq' = account_id_seq

\* C18: the auth flows never mutate or delete existing rows: POST /login
\* (any outcome), GET /hash_demo and a POST /register rejected by validation
\* or by a uniqueness violation leave the Account and Credential tables
\* unchanged, and a successful registration only adds rows.
AuthFrame ==
    [][/\ Account \subseteq Account'
       /\ Len(Account_Credential) <= Len(Account_Credential')
       /\ SubSeq(Account_Credential', 1, Len(Account_Credential)) = Account_Credential
       /\ \A s \in Slots :
            /\ Steps(s, {"login", "hash_demo"}) => AuthTablesUnchanged
            /\ (Steps(s, {"register"}) /\ req'[s].resp.status = 400) => AuthTablesUnchanged
            /\ (Steps(s, {"register"}) /\ req'[s].resp.status = 201) =>
                    /\ Account' = Account
                    /\ Len(Account_Credential') = Len(Account_Credential) + 1]_vars

\* GET /hash_demo was answered while both tables hold rows
AuthFrameWitness ==
    \E s \in Slots :
        /\ Done(s, "hash_demo")
        /\ req[s].resp.status = 200
        /\ Account # {}
        /\ Len(Account_Credential) > 0

(***************************************************************************)
(* The password rule: the registration chain applied to every password of  *)
(* a bounded set.                                                          *)
(***************************************************************************)
\* the characters passwords are drawn from: one of each class and one of none
PasswordAlphabet == {"A", "b", "1", "-"}

\* k characters of no class
RECURSIVE Fill(_)
Fill(k) == IF k = 0 THEN <<>> ELSE <<"-">> \o Fill(k - 1)

\* up to MaxFill characters of no class, then SuffixLen characters of the
\* alphabet; and values that are not strings
Passwords ==
    {Str(Fill(k) \o w) : k \in 0..MaxFill, w \in [1..SuffixLen -> PasswordAlphabet]}
    \cup {Undefined, Null, Num(12345678), Str(<<>>)}

InitPassword ==
    /\ Account = {}
    /\ Account_Credential = <<>>
    /\ Books = {}
    /\ account_id_seq = 1
    /\ registered = {}
    /\ \E password \in Passwords : \E variant \in Variants :
        req = [s \in Slots |->
                IF s = 1
                THEN [IdleRequest EXCEPT
                        !.kind = "register", !.variant = variant, !.pc = "email",
                        !.body = [Body(Email1, User1, Phone1, Role3) EXCEPT
                                        !.password = password]]
                ELSE IdleRequest]

NextPassword ==
    \/ emailMiddlewareCheck(1)
    \/ RegisterNamesCheck(1)
    \/ RegisterPhoneCheck(1)
    \/ RegisterPasswordCheck(1)
    \/ RegisterRoleCheck(1)

SpecPassword == InitPassword /\ [][NextPassword]_vars

\* the number of characters of s that are in class
Count(s, class) == Cardinality({i \in 1..Len(s) : s[i] \in class})

\* at least 8 characters, among them an uppercase letter, a lowercase letter and a digit
Strong(P) ==
    /\ P.t = "string"
    /\ Len(P.v) >= 8
    /\ Count(P.v, Upper) >= 1
    /\ Count(P.v, Lower) >= 1
    /\ Count(P.v, Digit) >= 1

\* C19: isValidPassword(P) is true if and only if P has length at least 8
\* and contains an uppercase ASCII letter, a lowercase ASCII letter and a
\* digit; registration proceeds past the password check exactly for such P.
PasswordRule ==
    LET r == req[1]
        P == r.body.password
    IN  /\ isValidPassword(P) <=> Strong(P)
        /\ (r.ran # <<>> /\ r.ran[Len(r.ran)] = "password") =>
                /\ r.pc = "role" <=> Strong(P)
                /\ r.pc = "done" <=> ~Strong(P)
                /\ r.pc = "done" => r.resp = Rejection.password
        /\ r.pc \in {"role", "insertAccount"} => Strong(P)

\* a password of exactly 8 characters with one of each class passed the check
PasswordRuleWitness ==
    /\ req[1].pc = "role"
    /\ Len(req[1].body.password.v) = 8
    /\ Count(req[1].body.password.v, Upper) = 1
    /\ Count(req[1].body.password.v, Lower) = 1
    /\ Count(req[1].body.password.v, Digit) = 1

(***************************************************************************)
(* The role rule: the registration chain applied to every role of a        *)
(* bounded set.                                                            *)
(***************************************************************************)
\* the characters roles are drawn from: a digit in range, a digit out of
\* range, the decimal point and a letter
RoleAlphabet == {"3", "7", ".", "a"}

\* every word of 1 to MaxRoleLen characters, and values that are not strings
Roles ==
    {Str(w) : w \in UNION {[1..n -> RoleAlphabet] : n \in 1..MaxRoleLen}}
    \cup {Undefined, Null, Str(<<>>)}

InitRole ==
    /\ Account = {}
    /\ Account_Credential = <<>>
    /\ Books = {}
    /\ account_id_seq = 1
    /\ registered = {}
    /\ \E role \in Roles : \E variant \in Variants :
        req = [s \in Slots |->
                IF s = 1
                THEN [IdleRequest EXCEPT
                        !.kind = "register", !.variant = variant, !.pc = "email",
                        !.body = Body(Email1, User1, Phone1, role)]
                ELSE IdleRequest]

NextRole ==
    \/ emailMiddlewareCheck(1)
    \/ RegisterNamesCheck(1)
    \/ RegisterPhoneCheck(1)
    \/ RegisterPasswordCheck(1)
    \/ RegisterRoleCheck(1)
    \/ RegisterInsertAccount(1)
    \/ RegisterInsertCredential(1)

SpecRole == InitRole /\ [][NextRole]_vars

\* the position of the decimal point of s, or Len(s) + 1 when it has none
PointAt(s) ==
    IF \E i \in 1..Len(s) : s[i] = "."
    THEN CHOOSE i \in 1..Len(s) : s[i] = "."
    ELSE Len(s) + 1

\* R is numeric, integer-valued and in the inclusive range [1, 5]
IntegerInRange(R) ==
    /\ R.t = "string"
    /\ IsNumericString(R.v)
    /\ LET u == Unsigned(R.v)
           p == PointAt(u)
       IN  /\ \A i \in (p + 1)..Len(u) : u[i] = "0"
           /\ p > 1
           /\ LET n == DigitsValue(u, p - 1) IN
                IF R.v[1] = "-" THEN FALSE ELSE n >= 1 /\ n <= 5

\* C20: the role check of POST /register accepts a role if and only if it
\* is numeric, integer-valued and in the inclusive range [1, 5]; every other
\* role is rejected with 400 and no Account row is inserted.
RoleRule ==
    LET r == req[1]
        R == r.body.role
    IN  /\ isValidRole(R) <=> IntegerInRange(R)
        /\ (r.ran # <<>> /\ r.ran[Len(r.ran)] = "role") =>
                /\ r.pc = "insertAccount" <=> IntegerInRange(R)
                /\ r.pc = "done" => r.resp = Rejection.role
        /\ ~IntegerInRange(R) =>
                /\ Account = {}
                /\ r.pc = "done" => r.resp.status = 400

\* the Account row of a registration with role 3.7 is in the store
FractionalRoleStored ==
    \E a \in Account : a.account_role = Str(<<"3", ".", "7">>)

(***************************************************************************)
(* Properties of the message router.                                       *)
(***************************************************************************)
\* C21: DELETE on the message router root with a priority query in [1, 3]
\* and no other query parameter removes the Demo entries of that priority
\* and returns them, or returns 404 'No Priority <priority> messages found'
\* when there are none; with a missing or out-of-range priority it returns
\* 400 'Invalid or missing Priority - please refer to documentation'.
DeleteByPriority ==
    \A s \in Slots :
        (Done(s, "msgDelete") /\ req[s].body.ISBN = Undefined) =>
            IF ValidPriorityQuery(req[s].body.priority)
            THEN /\ req[s].sql = <<"DELETE Demo">>
                 /\ req[s].resp.status \in {200, 404, 500}
                 /\ req[s].resp.status = 500 => req[s].error # NoError
            ELSE /\ req[s].sql = <<>>
                 /\ req[s].resp =
                        Message(400, "Invalid or missing Priority - please refer to documentation")

\* a DELETE with ?priority=2 was answered by the middleware of the first route
PriorityDeleteShadowed ==
    \E s \in Slots :
        /\ Done(s, "msgDelete")
        /\ req[s].body = [priority |-> Str(<<"2">>), ISBN |-> Undefined]
        /\ req[s].ran = <<"isbnQuery">>
        /\ req[s].resp = Message(400, "Invalid or missing ISBN - please refer to documentation")

(***************************************************************************)
(* Uniqueness in the auth tables.                                          *)
(***************************************************************************)
\* C22: in every state reachable through register and login requests each
\* Account has at most one Credential row and each email belongs to at most
\* one Account, so the login lookup never returns more than one row and
\* the 500 'too many results' branch of POST /login is never taken.
AtMostOneRow ==
    /\ \A a \in Account : Cardinality(CredentialsOf(a.account_id)) <= 1
    /\ \A a, b \in Account : a.email = b.email => a = b
    /\ \A a, b \in Account : a.account_id = b.account_id => a = b
    /\ \A s \in Slots :
        req[s].kind = "login" =>
            /\ Len(req[s].rows) <= 1
            /\ (req[s].pc = "done" /\ req[s].resp.status = 500) => req[s].error # NoError

\* a login lookup returned its one row while two accounts hold credentials
AtMostOneRowWitness ==
    \E s \in Slots :
        /\ Done(s, "login")
        /\ Len(req[s].rows) = 1
        /\ Cardinality(Account) = 2
        /\ Len(Account_Credential) = 2

(***************************************************************************)
(* One response per request.                                               *)
(***************************************************************************)
\* C23: every handler chain sends exactly one response per request: a chain
\* that has ended has sent a response, and once a response has been sent for
\* a request no later handler of the chain runs, no SQL statement is issued
\* and the response is not replaced.
OneResponsePerRequest ==
    [][\A s \in Slots :
        /\ req'[s].pc = "done" => req'[s].resp.status # 0
        /\ req[s].resp.status # 0 =>
            \/ req'[s] = IdleRequest
            \/ /\ req'[s].ran = req[s].ran
               /\ req'[s].sql = req[s].sql
               /\ req'[s].resp = req[s].resp]_vars

\* the validation handler of the message POST answered 400 for the short
\* ISBN, and the two handlers after it ran all the same
HandlersRanAfterResponse ==
    \E s \in Slots :
        /\ Done(s, "message")
        /\ req[s].resp = Message(400, "Invalid or missing ISBN - please refer to documentation")
        /\ req[s].ran = <<"msgName", "msgValidate", "msgAverage", "msgInsert">>

(***************************************************************************)
(* Concurrent registrations.                                               *)
(***************************************************************************)
\* request s attempted its Account insert while request t, which passed the
\* same validation and holds the same email or username, had its Account row
\* inserted and its Credential insert pending
RacedBy(s, t) ==
    /\ s # t
    /\ Done(s, "register")
    /\ req[s].ran[Len(req[s].ran)] = "insertAccount"
    /\ req[t].kind = "register"
    /\ req[t].pc = "insertCredential"
    /\ \/ req[s].body.email = req[t].body.email
       \/ req[s].body.username = req[t].body.username

\* C24: of two concurrent valid POST /register requests with the same email
\* (or username) at most one returns 201; the one that loses the race is
\* rejected with 400 'Email exists' ('Username exists') when its statement
\* executes, creates neither an Account nor a Credential row, and the
\* Credential row of a 201 carries the account id of its own Account insert.
ConcurrentRegistration ==
    /\ \A x, y \in registered : (x.email = y.email \/ x.id = y.id) => x = y
    /\ \A a, b \in Account : a.username = b.username => a = b
    /\ \A s \in Slots :
        (Done(s, "register") /\ req[s].resp.status = 201) =>
            /\ \E a \in Account :
                /\ a.account_id = req[s].id
                /\ a.email = req[s].body.email
                /\ a.username = req[s].body.username
            /\ \E i \in 1..Len(Account_Credential) :
                /\ Account_Credential[i].account_id = req[s].id
                /\ Account_Credential[i].salted_hash =
                        generateHash(req[s].body.password.v, Account_Credential[i].salt)
    /\ \A s, t \in Slots :
        RacedBy(s, t) =>
            /\ req[s].id = NoId
            /\ req[s].sql = <<"INSERT Account">>
            /\ \A a \in Account : a.account_id # req[t].id =>
                    a.email # req[t].body.email /\ a.username # req[t].body.username
            /\ \A i \in 1..Len(Account_Credential) :
                    Account_Credential[i].account_id # req[t].id
            /\ IF req[s].error.constraint = "none"
               THEN req[s].resp.status = 500
               ELSE /\ req[s].resp.status = 400
                    /\ req[s].resp.body.message \in {"Email exists", "Username exists"}
                    /\ (\A a \in Account : a.username # req[s].body.username)
                            => req[s].resp.body.message = "Email exists"
                    /\ (\A a \in Account : a.email # req[s].body.email)
                            => req[s].resp.body.message = "Username exists"

\* the request that lost the race for the email was answered 'Email exists'
\* while the winner's Credential insert was still pending
ConcurrentRegistrationWitness ==
    \E s, t \in Slots :
        /\ RacedBy(s, t)
        /\ req[s].body.email = req[t].body.email
        /\ req[s].resp = Message(400, "Email exists")
        /\ Cardinality(Account) = 1
        /\ Len(Account_Credential) = 0

\* the same for the username
ConcurrentUsernameWitness ==
    \E s, t \in Slots :
        /\ RacedBy(s, t)
        /\ req[s].body.email # req[t].body.email
        /\ req[s].resp = Message(400, "Username exists")

(***************************************************************************)
(* Rating updates.                                                         *)
(***************************************************************************)
\* the UPDATE of the request on connection s completes in this step
UpdateStep(s) ==
    /\ req[s].pc = "updateQuery"
    /\ req'[s].pc = "done"

\* row holds every rating value body b supplies
HoldsSupplied(row, b) ==
    \A i \in 1..Len(RatingColumns) :
        ~IsNullish(b[RatingColumns[i]]) => row[RatingColumns[i]] = b[RatingColumns[i]]

\* C25: whenever PUT /library/update/ratings responds 200 "Book's ratings
\* have been updated", a Books row with the given title was updated with the
\* supplied rating values, also when a DELETE of that book completes between
\* the existence check and the UPDATE.
UpdateReportedIsApplied ==
    [][\A s \in Slots :
        (UpdateStep(s) /\ req'[s].resp = Message(200, "Book's ratings have been updated")) =>
            /\ \E row \in Books : row.title = req[s].body.title
            /\ \E row \in Books' :
                    row.title = req[s].body.title /\ HoldsSupplied(row, req[s].body)]_vars

\* the update was answered 200 although the book was removed after the
\* existence check and no row carries the title
UpdateReportedWithoutRow ==
    \E s \in Slots :
        /\ Done(s, "update")
        /\ req[s].resp = Message(200, "Book's ratings have been updated")
        /\ req[s].sql = <<"SELECT Books", "UPDATE Books">>
        /\ \A row \in Books : row.title # req[s].body.title

(***************************************************************************)
(* The three searches of GET /library.                                     *)
(***************************************************************************)
\* the query parameter has a non-empty value
Present(x) == x # Undefined /\ x # Str(<<>>)

AuthorSearchFound ==
    \E s \in Slots :
        /\ Done(s, "search")
        /\ req[s].ran = <<"getAuthors", "authorsQuery">>
        /\ req[s].resp.status = 200

\* the rating_avg search found a book
RatingSearchFound ==
    \E s \in Slots :
        /\ Done(s, "search")
        /\ req[s].ran[Len(req[s].ran)] = "ratingQuery"
        /\ req[s].resp.status = 200

\* column c is a rating column for which body b supplies a value
Supplied(b, c) == (\E i \in 1..Len(RatingColumns) : RatingColumns[i] = c) /\ ~IsNullish(b[c])

\* new is row with the supplied rating columns set and every other column kept
SuppliedSet(row, new, b) ==
    \A c \in DOMAIN row : new[c] = IF Supplied(b, c) THEN b[c] ELSE row[c]

\* C27: a successful PUT /library/update/ratings changes, in the Books row
\* with the given title, exactly the rating columns whose value is supplied
\* (non-null), setting each to the supplied value; every other column of that
\* row (rating_avg included) and every other row is unchanged, and a request
\* answered 404, 400 or 500 changes nothing.
UpdateFrame ==
    [][\A s \in Slots :
        (req'[s] # req[s] /\ req'[s].kind = "update") =>
            IF UpdateStep(s) /\ req'[s].resp.status = 200
            THEN LET b == req[s].body IN
                 /\ \A row \in Books :
                        IF row.title = b.title
                        THEN \E new \in Books' : SuppliedSet(row, new, b)
                        ELSE row \in Books'
                 /\ \A new \in Books' :
                        \/ new \in Books /\ new.title # b.title
                        \/ \E row \in Books : row.title = b.title /\ SuppliedSet(row, new, b)
            ELSE /\ Books' = Books
                 /\ req'[s].pc = "done" => req'[s].resp.status \in {200, 400, 404, 500}]_vars

\* an update that supplied rating_1_star only set that column of the book
\* and kept its other counts
UpdateFrameWitness ==
    \E s \in Slots :
        /\ Done(s, "update")
        /\ req[s].resp.status = 200
        /\ req[s].body = UpdateBody(Title2, Undefined, Num(3), Undefined)
        /\ \E row \in Books :
            /\ row.title = Title2
            /\ row.rating_1_star = Num(3)
            /\ row.rating_count = Num(1)
            /\ row.rating_5_star = Num(1)
            /\ row.rating_avg # Null

\* body b supplies a value for some rating column
SomeSupplied(b) == \E i \in 1..Len(RatingColumns) : ~IsNullish(b[RatingColumns[i]])

\* some value body b supplies is negative or not an integer
SomeInvalid(b) ==
    \E i \in 1..Len(RatingColumns) :
        LET value == b[RatingColumns[i]] IN
            ~IsNullish(value) /\ (~NumberIsInteger(value) \/ Negative(value))

\* C28: for an existing title, PUT /library/update/ratings is accepted
\* whenever at least one of rating_count, rating_1_star .. rating_5_star is
\* supplied and every supplied count is a non-negative integer; it answers
\* 400 'At least one rating count must be provided' only when no rating
\* count is supplied and 400 'Rating counts must be non-negative integers'
\* only when a supplied count is negative or not an integer.
UpdateAccepted ==
    [][\A s \in Slots :
        (ExistsStep(s) /\ checkBookExists(req[s].body.title)) =>
            LET b == req[s].body IN
            /\ (SomeSupplied(b) /\ ~SomeInvalid(b)) => req'[s].pc = "updateQuery"
            /\ req'[s].resp = Message(400, "At least one rating count must be provided")
                    => ~SomeSupplied(b)
            /\ req'[s].resp = Message(400, "Rating counts must be non-negative integers")
                    => SomeInvalid(b)]_vars

\* an update of an existing title that supplied rating_count alone was
\* answered 'At least one rating count must be provided'
RatingCountAloneRejected ==
    \E s \in Slots :
        /\ Done(s, "update")
        /\ req[s].body = UpdateBody(Title1, Num(7), Undefined, Undefined)
        /\ \E row \in Books : row.title = Title1
        /\ req[s].sql = <<"SELECT Books">>
        /\ req[s].resp = Message(400, "At least one rating count must be provided")

(***************************************************************************)
(* Rating counts and images of POST /library/add.                          *)
(***************************************************************************)
\* body b of POST /library/add supplies a negative rating count
NegativeCount(b) == \E i \in 1..Len(AddCounts) : Negative(b[AddCounts[i]])

\* C29: POST /library/add never inserts a book with a negative rating
\* count: whenever a rating count supplied in the body is negative the
\* request is rejected with 400 'Rating counts must be non-negative integers'
\* and no Books row is inserted, also when only some of the six counts are
\* supplied.
NoNegativeCounts ==
    /\ \A row \in Books :
        \A i \in 1..Len(RatingColumns) : ~Negative(row[RatingColumns[i]])
    /\ \A s \in Slots :
        (Done(s, "add") /\ AddFailing(req[s].body) = {} /\ NegativeCount(req[s].body)) =>
            /\ req[s].resp = Message(400, "Rating counts must be non-negative integers")
            /\ req[s].sql = <<>>

\* a book was added with oneStar = -1 and no other count, and the row holds
\* the negative count
NegativeCountStored ==
    \E s \in Slots :
        /\ Done(s, "add")
        /\ req[s].resp.status = 201
        /\ req[s].body.oneStar = Num(-1)
        /\ \E row \in Books : row.isbn13 = req[s].body.ISBN /\ row.rating_1_star = Num(-1)

\* the Book object of a 201 holds the values of row
SameAsRow(book, row) ==
    /\ SqlValue(book.ISBN) = row.isbn13
    /\ SqlValue(book.title) = row.title
    /\ SqlValue(book.author) = row.authors
    /\ SqlValue(book.date) = row.publication_year
    /\ SqlValue(book.AverageRating) = row.rating_avg
    /\ SqlValue(book.totalRatings) = row.rating_count
    /\ SqlValue(book.oneStar) = row.rating_1_star
    /\ SqlValue(book.twoStar) = row.rating_2_star
    /\ SqlValue(book.threeStar) = row.rating_3_star
    /\ SqlValue(book.fourStar) = row.rating_4_star
    /\ SqlValue(book.fiveStar) = row.rating_5_star
    /\ SqlValue(book.imageBigURL) = row.image_url
    /\ SqlValue(book.imageSmallURL) = row.image_small_url

\* C30: after a successful POST /library/add (201) the inserted Books row
\* holds the values the request was validated on: its isbn13, title, author
\* and publication year, its image_url equals the imageLargeURL of the body
\* and its image_small_url the imageSmallURL of the body; the book object
\* of the response equals the stored row.
AddStoresValidated ==
    \A s \in Slots :
        (Done(s, "add") /\ req[s].resp.status = 201) =>
            \E row \in Books :
                /\ row.isbn13 = req[s].body.ISBN
                /\ row.title = req[s].body.title
                /\ row.authors = req[s].body.author
                /\ row.publication_year = req[s].body.publicationYear
                /\ row.image_url = req[s].body.imageLargeURL
                /\ row.image_small_url = req[s].body.imageSmallURL
                /\ SameAsRow(req[s].resp.body.Book, row)

\* a book was added with an imageLargeURL and its row has no image_url
LargeImageNotStored ==
    \E s \in Slots :
        /\ Done(s, "add")
        /\ req[s].resp.status = 201
        /\ req[s].body.imageLargeURL = LargeUrl
        /\ \E row \in Books : row.isbn13 = req[s].body.ISBN /\ row.image_url = Null

====
